---- MODULE Spec2Model ----
(***************************************************************************)
(* Model of the aid-metrics analysis pipeline (pkg/analyzer/analyzer.go):  *)
(* ModuleAnalyzer.Analyze = findPackages ; parsePackages (worker pool +    *)
(* result loop) ; calculateMetrics.                                        *)
(*                                                                         *)
(* Go strings are TLA+ strings; Chars[s] gives the characters of s so that *)
(* strings.Split / HasPrefix / Contains are computed character by          *)
(* character.  float64 values are modelled as exact reduced fractions      *)
(* [num, den] (rounding is not modelled) plus the value NaN.               *)
(***************************************************************************)
EXTENDS Integers, Sequences, FiniteSets, TLC

\* ------------------------------------------------------------------------
\* Bounds of the model
\* ------------------------------------------------------------------------
MaxPkgs == 3
MaxCPU == 2
MaxPathLen == 4
MaxModuleLen == 2
MaxFiles == 2
MaxDecls == 4
MaxInfos == 3
MaxBatch == 2
MaxDirs == 3
MaxImportLen == 5
MaxNameLen == 2
MaxOps == 4
MaxPoolPkgs == 1
MaxLivePkgs == 2
MaxLiveCPU == 2
MaxValue == 2
MaxVisits == 34
MaxReports == 2

\* ------------------------------------------------------------------------
\* Strings
\* ------------------------------------------------------------------------
Chars ==
   "" :> <<>> @@
   "github.com/org/mod" :> <<"g","i","t","h","u","b",".","c","o","m","/","o","r","g","/","m","o","d">> @@
   "github.com/org/mod/a" :> <<"g","i","t","h","u","b",".","c","o","m","/","o","r","g","/","m","o","d","/","a">> @@
   "github.com/org/mod/b" :> <<"g","i","t","h","u","b",".","c","o","m","/","o","r","g","/","m","o","d","/","b">> @@
   "github.com/org/mod/c" :> <<"g","i","t","h","u","b",".","c","o","m","/","o","r","g","/","m","o","d","/","c">> @@
   "github.com/org/mod/e" :> <<"g","i","t","h","u","b",".","c","o","m","/","o","r","g","/","m","o","d","/","e">> @@
   "github.com/org/mod/mod" :> <<"g","i","t","h","u","b",".","c","o","m","/","o","r","g","/","m","o","d","/","m","o","d">> @@
   "other.org/ext" :> <<"o","t","h","e","r",".","o","r","g","/","e","x","t">> @@
   "vendor/x" :> <<"v","e","n","d","o","r","/","x">> @@
   "fmt" :> <<"f","m","t">> @@
   "vendor/" :> <<"v","e","n","d","o","r","/">>

\* strings.HasPrefix on character sequences
HasPrefix(s, prefix) ==
   /\ Len(prefix) <= Len(s)
   /\ SubSeq(s, 1, Len(prefix)) = prefix

\* strings.Contains for a non-empty substring
Contains(s, substr) ==
   \E i \in 1..(Len(s) - Len(substr) + 1) : SubSeq(s, i, i + Len(substr) - 1) = substr

\* strings.TrimPrefix
TrimPrefix(s, prefix) ==
   IF HasPrefix(s, prefix) THEN SubSeq(s, Len(prefix) + 1, Len(s)) ELSE s

\* strings.Split with a one-character separator: always at least one part,
\* the parts lie between consecutive separators
Split(s, sep) ==
   LET pos == { i \in 1..Len(s) : s[i] = sep }
       Nth(k) == CHOOSE i \in pos : Cardinality({ j \in pos : j < i }) = k - 1
   IN  [k \in 1..(Cardinality(pos) + 1) |->
          SubSeq(s, IF k = 1 THEN 1 ELSE Nth(k - 1) + 1,
                    IF k = Cardinality(pos) + 1 THEN Len(s) ELSE Nth(k) - 1)]

RECURSIVE Join(_, _)
\* strings.Join with a one-character separator
Join(parts, sep) ==
   IF Len(parts) = 0 THEN <<>>
   ELSE IF Len(parts) = 1 THEN parts[1]
   ELSE parts[1] \o <<sep>> \o Join(Tail(parts), sep)

\* ------------------------------------------------------------------------
\* isStandardLibraryPackage (analyzer.go:229)
\* ------------------------------------------------------------------------
\* a variant that looks for a dot in the whole path, not in its first segment
isStandardLibraryPathAnyDot(id, mod) ==
   IF mod # <<>> /\ ~Contains(id, <<".">>) /\ ~HasPrefix(id, mod)
   THEN TRUE
   ELSE IF mod # <<>> /\ HasPrefix(id, mod)
   THEN FALSE
   ELSE ~Contains(id, <<".">>)

\* a variant whose fallback looks at the first segment only
isStandardLibraryPathFirstSegmentFallback(id, mod) ==
   LET parts == Split(id, "/")
   IN  IF /\ mod # <<>>
          /\ Len(parts) > 0
          /\ ~Contains(parts[1], <<".">>)
          /\ ~HasPrefix(id, mod)
       THEN TRUE
       ELSE IF mod # <<>> /\ HasPrefix(id, mod)
       THEN FALSE
       ELSE ~Contains(parts[1], <<".">>)

\* the function on the characters of its two arguments
isStandardLibraryPath(id, mod) ==
   LET parts == Split(id, "/")
   IN  IF /\ mod # <<>>
          /\ Len(parts) > 0
          /\ ~Contains(parts[1], <<".">>)
          /\ ~HasPrefix(id, mod)
       THEN TRUE
       ELSE IF mod # <<>> /\ HasPrefix(id, mod)
       THEN FALSE
       ELSE ~Contains(id, <<".">>)

isStandardLibraryPackage(pkgID, mainModulePath) ==
   isStandardLibraryPath(Chars[pkgID], Chars[mainModulePath])

\* the filter analyzePackage applies to the package itself and to each import
\* (analyzer.go:170 and :179)
IsSkipped(id, moduleName) ==
   isStandardLibraryPackage(id, moduleName) \/ HasPrefix(Chars[id], Chars["vendor/"])

\* ------------------------------------------------------------------------
\* float64 values as exact fractions; den = 0 encodes NaN (num = 0) and +Inf
\* ------------------------------------------------------------------------
AbsInt(n) == IF n < 0 THEN -n ELSE n

RECURSIVE GCD(_, _)
GCD(m, n) == IF n = 0 THEN m ELSE GCD(n, m % n)

NaN == [num |-> 0, den |-> 0]

Inf == [num |-> 1, den |-> 0]

\* the reduced fraction n/d, d > 0
Frac(n, d) ==
   LET g == GCD(AbsInt(n), d) IN [num |-> n \div g, den |-> d \div g]

\* float64(n) / float64(d) for non-negative integers n, d
FloatDiv(n, d) ==
   IF d = 0 THEN (IF n = 0 THEN NaN ELSE Inf) ELSE Frac(n, d)

FloatAdd(x, y) ==
   IF x = NaN \/ y = NaN THEN NaN
   ELSE IF x.den = 0 \/ y.den = 0 THEN Inf
   ELSE Frac(x.num * y.den + y.num * x.den, x.den * y.den)

FloatSubOne(x) ==
   IF x.den = 0 THEN x ELSE Frac(x.num - x.den, x.den)

\* math.Abs
FloatAbs(x) == [num |-> AbsInt(x.num), den |-> x.den]

Zero == Frac(0, 1)

\* ------------------------------------------------------------------------
\* Resolved packages (what packages.Load hands to parsePackages)
\* A file is [parses, decls]; a declaration is [kind, locals] where locals
\* are the kinds of the type specs inside a function body, which ast.Inspect
\* visits like every other node.
\* ------------------------------------------------------------------------
Decl(kind) == [kind |-> kind, locals |-> <<>>]

GoFile(decls) == [parses |-> TRUE, decls |-> decls]

BadFile == [parses |-> FALSE, decls |-> <<>>]

ModuleIdentity == "github.com/org/mod"

Catalogue ==
   << [ID |-> "github.com/org/mod/a", Imports |-> {"fmt"},
       GoFiles |-> << GoFile(<<Decl("interface"), Decl("func")>>) >>],
      [ID |-> "github.com/org/mod/b", Imports |-> {"github.com/org/mod/a"},
       GoFiles |-> << GoFile(<<Decl("struct")>>) >>],
      [ID |-> "github.com/org/mod/c",
       Imports |-> {"github.com/org/mod/a", "github.com/org/mod/b", "other.org/ext", "vendor/x"},
       GoFiles |-> << GoFile(<<Decl("alias"), Decl("method"), Decl("struct")>>),
                      GoFile(<<[kind |-> "func", locals |-> <<"interface">>]>>) >>],
      [ID |-> "github.com/org/mod/c", Imports |-> {"github.com/org/mod/b"},
       GoFiles |-> << GoFile(<<Decl("interface")>>), BadFile >>],
      [ID |-> "fmt", Imports |-> {},
       GoFiles |-> << GoFile(<<Decl("struct"), Decl("func")>>) >>],
      [ID |-> "vendor/x", Imports |-> {"github.com/org/mod/a"},
       GoFiles |-> << GoFile(<<Decl("interface")>>), BadFile >>],
      [ID |-> "github.com/org/mod/e", Imports |-> {}, GoFiles |-> <<>>] >>

\* the package lists the loader may return: distinct IDs, catalogue order
RECURSIVE SeqOfSet(_)
SeqOfSet(S) ==
   IF S = {} THEN <<>>
   ELSE LET m == CHOOSE x \in S : \A y \in S : x <= y
        IN  <<Catalogue[m]>> \o SeqOfSet(S \ {m})

PackageLists ==
   { SeqOfSet(S) : S \in { T \in SUBSET (1..Len(Catalogue)) :
        /\ Cardinality(T) <= MaxPkgs
        /\ \A i, j \in T : i # j => Catalogue[i].ID # Catalogue[j].ID } }

\* all orders in which a map with key set S can be iterated
Orders(S) ==
   { f \in [1..Cardinality(S) -> S] : \A i, j \in 1..Cardinality(S) : i # j => f[i] # f[j] }

\* ------------------------------------------------------------------------
\* analyzePackage (analyzer.go:164)
\* ------------------------------------------------------------------------
NoError == "nil"

ParseError == "failed to parse file"

\* number of TypeSpec nodes of the given kind that ast.Inspect meets in a file
TypeSpecs(file, kind) ==
   Cardinality({ i \in 1..Len(file.decls) : file.decls[i].kind = kind })
   + Cardinality({ ij \in (1..Len(file.decls)) \X (1..3) :
        /\ ij[2] <= Len(file.decls[ij[1]].locals)
        /\ file.decls[ij[1]].locals[ij[2]] = kind })

\* a variant that counts methods like standalone functions
FuncDeclsWithMethods(file) ==
   Cardinality({ i \in 1..Len(file.decls) : file.decls[i].kind \in {"func", "method"} })

\* a variant that does not count standalone functions
FuncDeclsIgnored(file) == 0 * Len(file.decls)

\* number of FuncDecl nodes without receiver
FuncDecls(file) ==
   Cardinality({ i \in 1..Len(file.decls) : file.decls[i].kind = "func" })

RECURSIVE Sum(_)
\* sum of a sequence of integers
Sum(seq) == IF Len(seq) = 0 THEN 0 ELSE Head(seq) + Sum(Tail(seq))

\* a variant that keeps every import
FilterImportsNone(importOrder, moduleName) == importOrder

\* imports that survive the filter, in the iteration order of pkg.Imports
FilterImports(importOrder, moduleName) ==
   SelectSeq(importOrder, LAMBDA imp : ~IsSkipped(imp, moduleName))

\* importOrder is the order in which the map pkg.Imports is ranged over
analyzePackage(pkg, moduleName, importOrder) ==
   LET empty == [packageID |-> pkg.ID, dependencies |-> <<>>,
                 abstractCount |-> 0, totalTypesCount |-> 0, err |-> NoError]
       deps == FilterImports(importOrder, moduleName)
       n == Len(pkg.GoFiles)
       abstractCount == Sum([i \in 1..n |-> TypeSpecs(pkg.GoFiles[i], "interface")])
       concreteCount == Sum([i \in 1..n |-> TypeSpecs(pkg.GoFiles[i], "struct")])
       funcCount == Sum([i \in 1..n |-> FuncDecls(pkg.GoFiles[i])])
   IN  IF IsSkipped(pkg.ID, moduleName)
       THEN empty
       ELSE IF \E i \in 1..n : ~pkg.GoFiles[i].parses
       THEN [empty EXCEPT !.dependencies = deps, !.err = ParseError]
       ELSE [empty EXCEPT !.dependencies = deps,
                          !.abstractCount = abstractCount,
                          !.totalTypesCount = abstractCount + concreteCount + funcCount]

\* ------------------------------------------------------------------------
\* The maps of ModuleAnalyzer (analyzer.go:20) and the result loop's body
\* ------------------------------------------------------------------------
MapPut(m, k, v) == [x \in (DOMAIN m) \cup {k} |-> IF x = k THEN v ELSE m[x]]

\* reading a missing key of a Go map gives the zero value
MapGet(m, k, zero) == IF k \in DOMAIN m THEN m[k] ELSE zero

EmptyMap == [x \in {} |-> 0]

NewModuleAnalyzer ==
   [dependencies |-> EmptyMap, reverseDepends |-> EmptyMap,
    abstractTypes |-> EmptyMap, totalTypes |-> EmptyMap]

\* a variant that records the reverse edge of the first dependency only
AppendReverseFirstOnly(rev, deps, packageID) ==
   IF Len(deps) = 0 THEN rev
   ELSE [x \in (DOMAIN rev) \cup {Head(deps)} |->
           IF x = Head(deps)
           THEN Append(IF x \in DOMAIN rev THEN rev[x] ELSE <<>>, packageID)
           ELSE rev[x]]

RECURSIVE AppendReverse(_, _, _)
\* analyzer.go:151-153
AppendReverse(rev, deps, packageID) ==
   IF Len(deps) = 0 THEN rev
   ELSE AppendReverse(MapPut(rev, Head(deps), Append(MapGet(rev, Head(deps), <<>>), packageID)),
                      Tail(deps), packageID)

\* a variant that records reverse edges only towards packages already folded
FoldResultKnownOnly(a, result) ==
   [dependencies |-> MapPut(a.dependencies, result.packageID, result.dependencies),
    reverseDepends |-> AppendReverse(a.reverseDepends,
                          SelectSeq(result.dependencies,
                                    LAMBDA dep : dep \in DOMAIN a.dependencies),
                          result.packageID),
    abstractTypes |-> MapPut(a.abstractTypes, result.packageID, result.abstractCount),
    totalTypes |-> MapPut(a.totalTypes, result.packageID, result.totalTypesCount)]

\* analyzer.go:147-156, for a result without error
FoldResult(a, result) ==
   [dependencies |-> MapPut(a.dependencies, result.packageID, result.dependencies),
    reverseDepends |-> AppendReverse(a.reverseDepends, result.dependencies, result.packageID),
    abstractTypes |-> MapPut(a.abstractTypes, result.packageID, result.abstractCount),
    totalTypes |-> MapPut(a.totalTypes, result.packageID, result.totalTypesCount)]

\* ------------------------------------------------------------------------
\* getRelativePackagePath (analyzer.go:324) and calculateMetrics (:281)
\* ------------------------------------------------------------------------
Last(seq) == seq[Len(seq)]

\* a variant that falls back to the last segment only
getRelativePathLastSegment(ip, mod) ==
   LET modParts == Split(mod, "/")
       relPath == TrimPrefix(ip, mod \o <<"/">>)
       pkgParts == Split(ip, " ")
       clean == IF Len(pkgParts) > 1 THEN pkgParts[1] ELSE ip
       parts == Split(clean, "/")
   IN  IF mod # <<>> /\ HasPrefix(ip, mod)
       THEN IF ip = mod THEN Last(modParts)
            ELSE IF relPath = <<>> THEN Last(modParts)
            ELSE relPath
       ELSE Last(parts)

\* getRelativePackagePath on character sequences
getRelativePath(ip, mod) ==
   LET modParts == Split(mod, "/")
       relPath == TrimPrefix(ip, mod \o <<"/">>)
       pkgParts == Split(ip, " ")
       clean == IF Len(pkgParts) > 1 THEN pkgParts[1] ELSE ip
       parts == Split(clean, "/")
   IN  IF mod # <<>> /\ HasPrefix(ip, mod)
       THEN IF ip = mod THEN Last(modParts)
            ELSE IF relPath = <<>> THEN Last(modParts)
            ELSE relPath
       ELSE IF Len(parts) <= 2 THEN clean
       ELSE Join(SubSeq(parts, Len(parts) - 1, Len(parts)), "/")

getRelativePackagePath(importPath, moduleName) ==
   getRelativePath(Chars[importPath], Chars[moduleName])

\* a variant without the zero-division guard
InstabilityUnguarded(ca, ce) == FloatDiv(ce, ca + ce)

\* analyzer.go:293-297
Instability(ca, ce) ==
   IF ca + ce > 0 THEN FloatDiv(ce, ca + ce) ELSE Zero

\* a variant that divides by the concrete count instead of the total count
AbstractnessOverConcrete(na, nc) ==
   IF nc > 0 THEN FloatDiv(na, nc - na) ELSE Zero

\* analyzer.go:299-303
Abstractness(na, nc) ==
   IF nc > 0 THEN FloatDiv(na, nc) ELSE Zero

\* a variant that forgets to subtract 1
DistanceNoOffset(abstractness, instability) ==
   FloatAbs(FloatAdd(abstractness, instability))

\* analyzer.go:306
Distance(abstractness, instability) ==
   FloatAbs(FloatSubOne(FloatAdd(abstractness, instability)))

\* analyzer.go:288-317, the body of the loop over a.dependencies
PackageMetrics(a, pkg, moduleName) ==
   LET ca == Len(MapGet(a.reverseDepends, pkg, <<>>))
       ce == Len(a.dependencies[pkg])
       na == MapGet(a.abstractTypes, pkg, 0)
       nc == MapGet(a.totalTypes, pkg, 0)
       instability == Instability(ca, ce)
       abstractness == Abstractness(na, nc)
   IN  [Name |-> getRelativePackagePath(pkg, moduleName),
        Ca |-> ca, Ce |-> ce, Na |-> na, Nc |-> nc,
        Instability |-> instability, Abstractness |-> abstractness,
        Distance |-> Distance(abstractness, instability)]

\* a variant that also gives an entry to every dependency target
calculateMetricsWithTargets(a, moduleName) ==
   [pkg \in (DOMAIN a.dependencies) \cup (DOMAIN a.reverseDepends) |->
      PackageMetrics([a EXCEPT !.dependencies = MapPut(@, pkg, MapGet(@, pkg, <<>>))],
                     pkg, moduleName)]

calculateMetrics(a, moduleName) ==
   [pkg \in DOMAIN a.dependencies |-> PackageMetrics(a, pkg, moduleName)]

\* ------------------------------------------------------------------------
\* State
\* ------------------------------------------------------------------------
VARIABLES
   moduleName,   \* ModuleAnalyzer.moduleName, "" when go.mod gave none
   pkgs,         \* the packages findPackages returns
   numCPU,       \* runtime.NumCPU()
   pc,           \* position of the goroutine running Analyze
   sent,         \* number of packages already sent on jobs (loop at :130)
   jobs,         \* the jobs channel: indices into pkgs, oldest first
   jobsClosed,
   results,      \* the results channel, oldest first
   resultsClosed,
   workers,      \* per worker goroutine: its position and the result in hand
   wg,           \* the WaitGroup counter
   closer,       \* position of the goroutine of :136-139
   a,            \* the four maps of the ModuleAnalyzer
   retMetrics,   \* first return value of Analyze
   retErr,       \* second return value of Analyze, <<>> is nil
   taken,        \* history: how often package i was received from jobs
   produced,     \* history: how many results for package i were sent
   arrival,      \* history: the packages whose results the result loop received, in order
   call,         \* a function of the analyzer evaluated on its own: its arguments
   ret,          \* ... and its return value
   bl,           \* the fields of a BatchLoader (discovery.go:159)
   lp,           \* the activation of BatchLoader.LoadPackages: locals and return values
   sink,         \* the values passed to ProgressReporter.Update, oldest first
   requests,     \* history: the path lists passed to packages.Load, oldest first
   dargs,        \* the arguments of discoverPackages and the file tree it walks
   walk,         \* the activation of discoverPackages: locals and return values
   callbacks     \* the arguments of the progressFunc invocations, oldest first

pipeline == <<moduleName, pkgs, numCPU, pc, sent, jobs, jobsClosed, results,
              resultsClosed, workers, wg, closer, a, retMetrics, retErr,
              taken, produced, arrival>>

\* the state of the parts that Analyze does not call
other == <<call, ret, bl, lp, sink, requests, dargs, walk, callbacks>>

vars == <<pipeline, other>>

\* nothing but Analyze is running
OtherIdle ==
   /\ call = <<>>
   /\ ret = <<>>
   /\ bl = <<>>
   /\ lp = <<>>
   /\ sink = <<>>
   /\ requests = <<>>
   /\ dargs = <<>>
   /\ walk = <<>>
   /\ callbacks = <<>>

inputs == <<moduleName, pkgs, numCPU>>

channels == <<jobs, jobsClosed, results, resultsClosed>>

history == <<taken, produced, arrival>>

MaxWorkers == 8

\* a variant without the cap
NumWorkersUncapped(cpus) == cpus

\* analyzer.go:104-107
NumWorkers(cpus) == IF cpus > MaxWorkers THEN MaxWorkers ELSE cpus

NilMetrics == [isNil |-> TRUE, Packages |-> EmptyMap]

NoResult == [packageID |-> "", dependencies |-> <<>>,
             abstractCount |-> 0, totalTypesCount |-> 0, err |-> NoError]

\* the position of the package with the given ID in pkgs
IndexOfID(id) == CHOOSE i \in 1..Len(pkgs) : pkgs[i].ID = id

Init ==
   /\ moduleName \in {ModuleIdentity, ""}
   /\ pkgs \in PackageLists
   /\ numCPU \in 1..MaxCPU
   /\ pc = "findPackages"
   /\ sent = 0
   /\ jobs = <<>>
   /\ jobsClosed = FALSE
   /\ results = <<>>
   /\ resultsClosed = FALSE
   /\ workers = <<>>
   /\ wg = 0
   /\ closer = "notStarted"
   /\ a = NewModuleAnalyzer
   /\ retMetrics = NilMetrics
   /\ retErr = <<>>
   /\ taken = [i \in 1..Len(pkgs) |-> 0]
   /\ produced = [i \in 1..Len(pkgs) |-> 0]
   /\ arrival = <<>>
   /\ OtherIdle

\* ------------------------------------------------------------------------
\* Analyze (analyzer.go:54)
\* ------------------------------------------------------------------------
\* findPackages succeeds (:56)
FindPackagesOK ==
   /\ pc = "findPackages"
   /\ pc' = "startWorkers"
   /\ UNCHANGED <<other, inputs, sent, channels, workers, wg, closer, a, retMetrics, retErr, history>>

\* packages.Load fails (:57-59)
FindPackagesFail ==
   /\ pc = "findPackages"
   /\ pc' = "done"
   /\ retErr' = <<"failed to find packages", "load error">>
   /\ UNCHANGED <<other, inputs, sent, channels, workers, wg, closer, a, retMetrics, history>>

\* ------------------------------------------------------------------------
\* parsePackages (analyzer.go:102)
\* ------------------------------------------------------------------------
\* :117-127, the worker goroutines are created
StartWorkers ==
   /\ pc = "startWorkers"
   /\ workers' = [w \in 1..NumWorkers(numCPU) |-> [pc |-> "recv", result |-> NoResult]]
   /\ wg' = NumWorkers(numCPU)
   /\ pc' = "sendJobs"
   /\ UNCHANGED <<other, inputs, sent, channels, closer, a, retMetrics, retErr, history>>

\* :130-132, one iteration; jobs has capacity len(pkgs)
SendJob ==
   /\ pc = "sendJobs"
   /\ sent < Len(pkgs)
   /\ Len(jobs) < Len(pkgs)
   /\ jobs' = Append(jobs, sent + 1)
   /\ sent' = sent + 1
   /\ UNCHANGED <<other, inputs, pc, jobsClosed, results, resultsClosed, workers, wg, closer,
                  a, retMetrics, retErr, history>>

\* a variant that closes the jobs channel before the last package is sent
CloseJobsEarly ==
   /\ pc = "sendJobs"
   /\ jobsClosed' = TRUE
   /\ pc' = "spawnCloser"
   /\ UNCHANGED <<other, inputs, sent, jobs, results, resultsClosed, workers, wg, closer,
                  a, retMetrics, retErr, history>>

\* a variant that leaves the jobs channel open
CloseJobsForgotten ==
   /\ pc = "sendJobs"
   /\ sent = Len(pkgs)
   /\ pc' = "spawnCloser"
   /\ UNCHANGED <<other, inputs, sent, jobs, jobsClosed, results, resultsClosed, workers, wg,
                  closer, a, retMetrics, retErr, history>>

\* :133
CloseJobs ==
   /\ pc = "sendJobs"
   /\ sent = Len(pkgs)
   /\ jobsClosed' = TRUE
   /\ pc' = "spawnCloser"
   /\ UNCHANGED <<other, inputs, sent, jobs, results, resultsClosed, workers, wg, closer,
                  a, retMetrics, retErr, history>>

\* :136, the goroutine that closes results is created
SpawnCloser ==
   /\ pc = "spawnCloser"
   /\ closer' = "wait"
   /\ pc' = "results"
   /\ UNCHANGED <<other, inputs, sent, channels, workers, wg, a, retMetrics, retErr, history>>

\* a variant in which the worker stores its result in the shared maps itself
WorkerRecvWritingMaps(w) ==
   /\ w \in DOMAIN workers
   /\ workers[w].pc = "recv"
   /\ Len(jobs) > 0
   /\ \E importOrder \in Orders(pkgs[Head(jobs)].Imports) :
         LET result == analyzePackage(pkgs[Head(jobs)], moduleName, importOrder)
         IN  /\ workers' = [workers EXCEPT ![w] = [pc |-> "send", result |-> result]]
             /\ a' = FoldResult(a, result)
   /\ jobs' = Tail(jobs)
   /\ taken' = [taken EXCEPT ![Head(jobs)] = @ + 1]
   /\ UNCHANGED <<other, inputs, pc, sent, jobsClosed, results, resultsClosed, wg, closer,
                  retMetrics, retErr, produced, arrival>>

\* :121-123, a worker receives a package and analyses it
WorkerRecv(w) ==
   /\ w \in DOMAIN workers
   /\ workers[w].pc = "recv"
   /\ Len(jobs) > 0
   /\ \E importOrder \in Orders(pkgs[Head(jobs)].Imports) :
         workers' = [workers EXCEPT ![w] =
            [pc |-> "send",
             result |-> analyzePackage(pkgs[Head(jobs)], moduleName, importOrder)]]
   /\ jobs' = Tail(jobs)
   /\ taken' = [taken EXCEPT ![Head(jobs)] = @ + 1]
   /\ UNCHANGED <<other, inputs, pc, sent, jobsClosed, results, resultsClosed, wg, closer,
                  a, retMetrics, retErr, produced, arrival>>

\* :124, results has capacity len(pkgs); a send on a closed channel panics
WorkerSend(w) ==
   /\ w \in DOMAIN workers
   /\ workers[w].pc = "send"
   /\ Len(results) < Len(pkgs)
   /\ ~resultsClosed
   /\ results' = Append(results, workers[w].result)
   /\ workers' = [workers EXCEPT ![w] = [pc |-> "recv", result |-> NoResult]]
   /\ produced' = [produced EXCEPT ![IndexOfID(workers[w].result.packageID)] = @ + 1]
   /\ UNCHANGED <<other, inputs, pc, sent, jobs, jobsClosed, resultsClosed, wg, closer,
                  a, retMetrics, retErr, taken, arrival>>

\* :121 and :120, range over the closed, drained jobs channel ends; wg.Done
WorkerExit(w) ==
   /\ w \in DOMAIN workers
   /\ workers[w].pc = "recv"
   /\ Len(jobs) = 0
   /\ jobsClosed
   /\ workers' = [workers EXCEPT ![w].pc = "exited"]
   /\ wg' = wg - 1
   /\ UNCHANGED <<other, inputs, pc, sent, channels, closer, a, retMetrics, retErr, history>>

\* a variant that does not wait for the workers
WorkersDoneEarly(counter) == counter >= 0

\* :137, wg.Wait returns
WorkersDone(counter) == counter = 0

\* :137-138
CloseResults ==
   /\ closer = "wait"
   /\ WorkersDone(wg)
   /\ resultsClosed' = TRUE
   /\ closer' = "done"
   /\ UNCHANGED <<other, inputs, pc, sent, jobs, jobsClosed, results, workers, wg,
                  a, retMetrics, retErr, history>>

\* a variant that ignores the error of a result
ResultFailedIgnored(result) == result.err # result.err

\* :143
ResultFailed(result) == result.err # NoError

\* :142-156, one iteration of the result loop for a result without error
AggregateResult ==
   /\ pc = "results"
   /\ Len(results) > 0
   /\ ~ResultFailed(Head(results))
   /\ a' = FoldResult(a, Head(results))
   /\ results' = Tail(results)
   /\ arrival' = Append(arrival, IndexOfID(Head(results).packageID))
   /\ UNCHANGED <<other, inputs, pc, sent, jobs, jobsClosed, resultsClosed, workers, wg, closer,
                  retMetrics, retErr, taken, produced>>

\* :143-145 and :63-65, the loop returns the error and Analyze wraps it
AggregateError ==
   /\ pc = "results"
   /\ Len(results) > 0
   /\ ResultFailed(Head(results))
   /\ results' = Tail(results)
   /\ arrival' = Append(arrival, IndexOfID(Head(results).packageID))
   /\ retErr' = <<"failed to parse packages", Head(results).err>>
   /\ pc' = "done"
   /\ UNCHANGED <<other, inputs, sent, jobs, jobsClosed, resultsClosed, workers, wg, closer,
                  a, retMetrics, taken, produced>>

\* a variant that leaves the result loop as soon as the channel is empty
AggregateDoneEarly ==
   /\ pc = "results"
   /\ Len(results) = 0
   /\ pc' = "calculateMetrics"
   /\ UNCHANGED <<other, inputs, sent, channels, workers, wg, closer, a, retMetrics, retErr, history>>

\* :142 and :159, the range over the closed, drained results channel ends
AggregateDone ==
   /\ pc = "results"
   /\ Len(results) = 0
   /\ resultsClosed
   /\ pc' = "calculateMetrics"
   /\ UNCHANGED <<other, inputs, sent, channels, workers, wg, closer, a, retMetrics, retErr, history>>

\* :68-69
CalculateMetrics ==
   /\ pc = "calculateMetrics"
   /\ retMetrics' = [isNil |-> FALSE, Packages |-> calculateMetrics(a, moduleName)]
   /\ pc' = "done"
   /\ UNCHANGED <<other, inputs, sent, channels, workers, wg, closer, a, retErr, history>>

Next ==
   \/ FindPackagesOK
   \/ FindPackagesFail
   \/ StartWorkers
   \/ SendJob
   \/ CloseJobs
   \/ SpawnCloser
   \/ \E w \in 1..MaxWorkers : WorkerRecv(w)
   \/ \E w \in 1..MaxWorkers : WorkerSend(w)
   \/ \E w \in 1..MaxWorkers : WorkerExit(w)
   \/ CloseResults
   \/ AggregateResult
   \/ AggregateError
   \/ AggregateDone
   \/ CalculateMetrics

Spec == Init /\ [][Next]_vars

\* ------------------------------------------------------------------------
\* Properties
\* ------------------------------------------------------------------------
AllIDs == DOMAIN Chars

Range(seq) == { seq[i] : i \in 1..Len(seq) }

\* the forward adjacency of P and the reverse adjacency of Q as sets
Forward(P) == Range(MapGet(a.dependencies, P, <<>>))

Reverse(Q) == Range(MapGet(a.reverseDepends, Q, <<>>))

Done == pc = "done"

\* Analyze returned metrics and no error
Succeeded == pc = "done" /\ retErr = <<>>

\* C1: after every fold of the result loop, in every arrival order, Q is in
\* the forward dependency list of P iff P is in the reverse-adjacency list of Q.
GraphSymmetry ==
   \A P, Q \in AllIDs : Q \in Forward(P) <=> P \in Reverse(Q)

\* C1 witness: two results were folded, the later one out of list order, and
\* a package with several dependencies has its edges in both maps.
GraphSymmetryWitness ==
   /\ Len(arrival) >= 2
   /\ arrival[1] > arrival[2]
   /\ \E P \in DOMAIN a.dependencies : Cardinality(Forward(P)) >= 2

\* C2: a package that is itself standard-library or vendored is no key of the
\* forward map and has no entry in the metrics; the node set is the set of
\* non-empty results.
SkippedPackagesAreNoNodes ==
   Succeeded =>
      /\ \A id \in DOMAIN a.dependencies : ~IsSkipped(id, moduleName)
      /\ \A id \in DOMAIN retMetrics.Packages : ~IsSkipped(id, moduleName)

\* C3: with module identity github.com/org/mod the external import
\* other.org/ext is in no dependency list, is no key of the reverse map and
\* counts towards no Ce; every dependency-list entry is module-local.
ExternalImportsExcluded ==
   moduleName = ModuleIdentity =>
      /\ \A P \in DOMAIN a.dependencies :
            \A Q \in Forward(P) : HasPrefix(Chars[Q], Chars[moduleName])
      /\ "other.org/ext" \notin DOMAIN a.reverseDepends
      /\ \A i \in 1..Len(results) :
            "other.org/ext" \notin Range(results[i].dependencies)
      /\ \A P \in DOMAIN retMetrics.Packages :
            retMetrics.Packages[P].Ce =
               Cardinality({ Q \in pkgs[IndexOfID(P)].Imports :
                                HasPrefix(Chars[Q], Chars[moduleName]) })

RECURSIVE ListOrderFold(_)
\* the maps after folding the results of the first n packages in list order,
\* each with its imports ranged over in one fixed order
ListOrderFold(n) ==
   IF n = 0 THEN NewModuleAnalyzer
   ELSE FoldResult(ListOrderFold(n - 1),
                   analyzePackage(pkgs[n], moduleName,
                                  CHOOSE o \in Orders(pkgs[n].Imports) : TRUE))

\* C4: when no result carries an error, the metrics Analyze returns are the
\* same whatever the order in which the results reached the result loop:
\* they equal the metrics of the fold in list order.
ArrivalOrderInvariance ==
   Succeeded =>
      retMetrics.Packages = calculateMetrics(ListOrderFold(Len(pkgs)), moduleName)

\* C4 witness: a successful run whose results arrived out of list order and
\* whose graph has an edge.
ArrivalOrderWitness ==
   /\ Succeeded
   /\ \E k \in 1..(Len(arrival) - 1) : arrival[k] > arrival[k + 1]
   /\ \E P \in DOMAIN retMetrics.Packages : retMetrics.Packages[P].Ca >= 2

\* how often the result loop received a result of package i
Consumed(i) == Cardinality({ k \in 1..Len(arrival) : arrival[k] = i })

AllWorkersExited ==
   /\ DOMAIN workers # {}
   /\ \A w \in DOMAIN workers : workers[w].pc = "exited"

\* C5: no package is received from jobs twice, no result is sent or received
\* twice; once all workers have exited every package was received once and
\* has one result; when the result loop ends without error every result was
\* received by it exactly once.
ExactlyOncePerPackage ==
   /\ \A i \in 1..Len(pkgs) :
         /\ taken[i] <= 1
         /\ produced[i] <= taken[i]
         /\ Consumed(i) <= produced[i]
   /\ AllWorkersExited => \A i \in 1..Len(pkgs) : taken[i] = 1 /\ produced[i] = 1
   /\ (pc = "calculateMetrics" \/ Succeeded) =>
         \A i \in 1..Len(pkgs) : taken[i] = 1 /\ produced[i] = 1 /\ Consumed(i) = 1

\* C5 witness: a successful run of two workers over several packages.
ExactlyOnceWitness ==
   /\ Succeeded
   /\ Len(pkgs) >= 2
   /\ Cardinality(DOMAIN workers) >= 2
   /\ \A i \in 1..Len(pkgs) : Consumed(i) = 1

\* a package the workers analyse has a file the parser rejects
ParseFails(i) ==
   /\ ~IsSkipped(pkgs[i].ID, moduleName)
   /\ \E f \in 1..Len(pkgs[i].GoFiles) : ~pkgs[i].GoFiles[f].parses

\* C6: when the parser rejects a file of an analysed package, the result of
\* that package carries an error; the result loop folds nothing from it and
\* nothing after it, calculateMetrics is never reached, and Analyze returns
\* the wrapped error and nil metrics.
ParseErrorAborts ==
   \A i \in 1..Len(pkgs) : ParseFails(i) =>
      /\ \A w \in DOMAIN workers :
            workers[w].result.packageID = pkgs[i].ID => workers[w].result.err = ParseError
      /\ \A k \in 1..Len(results) :
            results[k].packageID = pkgs[i].ID => results[k].err = ParseError
      /\ pkgs[i].ID \notin DOMAIN a.dependencies
      /\ pc # "calculateMetrics"
      /\ retMetrics.isNil
      /\ Consumed(i) = 1 =>
            /\ pc = "done"
            /\ arrival[Len(arrival)] = i
            /\ retErr = <<"failed to parse packages", ParseError>>
            /\ DOMAIN a.dependencies =
                  { pkgs[arrival[k]].ID : k \in 1..(Len(arrival) - 1) }
      /\ Done => retErr # <<>>

\* C6 witness: the error was observed after another result had been folded
\* and while a further result was still to come.
ParseErrorWitness ==
   /\ Done
   /\ retErr = <<"failed to parse packages", ParseError>>
   /\ Len(arrival) = 2
   /\ Len(pkgs) = 3
   /\ DOMAIN a.dependencies # {}

\* the imports of node P that belong to the module
ModuleLocalImports(P) ==
   { Q \in pkgs[IndexOfID(P)].Imports : HasPrefix(Chars[Q], Chars[moduleName]) }

\* the analysed packages of the module that import P
ModuleLocalDependents(P) ==
   { i \in 1..Len(pkgs) :
        /\ ~IsSkipped(pkgs[i].ID, moduleName)
        /\ HasPrefix(Chars[pkgs[i].ID], Chars[moduleName])
        /\ P \in pkgs[i].Imports }

\* C7: Ca is the size of the reverse list and Ce the size of the forward
\* list, and after an error-free run Ca is the number of analysed
\* module-local packages that depend on P and Ce the number of module-local
\* packages P depends on.
CouplingCounts ==
   (Succeeded /\ moduleName = ModuleIdentity) =>
      \A P \in DOMAIN retMetrics.Packages :
         ~IsSkipped(P, moduleName) =>
            /\ retMetrics.Packages[P].Ca = Len(MapGet(a.reverseDepends, P, <<>>))
            /\ retMetrics.Packages[P].Ce = Len(a.dependencies[P])
            /\ retMetrics.Packages[P].Ca = Cardinality(ModuleLocalDependents(P))
            /\ retMetrics.Packages[P].Ce = Cardinality(ModuleLocalImports(P))

\* C8: I = Ce/(Ca+Ce) when Ca+Ce > 0, and I is exactly 0, not NaN, when
\* Ca+Ce = 0.
InstabilityFormula ==
   \A P \in DOMAIN retMetrics.Packages :
      LET m == retMetrics.Packages[P] IN
      /\ m.Instability # NaN
      /\ m.Ca + m.Ce > 0 =>
            /\ m.Instability.den > 0
            /\ m.Instability.num * (m.Ca + m.Ce) = m.Ce * m.Instability.den
      /\ m.Ca + m.Ce = 0 => m.Instability = [num |-> 0, den |-> 1]

\* C8 witness: the metrics hold an isolated package and a package with both
\* dependents and dependencies.
InstabilityWitness ==
   /\ Succeeded
   /\ \E P \in DOMAIN retMetrics.Packages :
         retMetrics.Packages[P].Ca + retMetrics.Packages[P].Ce = 0
   /\ \E P \in DOMAIN retMetrics.Packages :
         retMetrics.Packages[P].Ca > 0 /\ retMetrics.Packages[P].Ce > 0

\* C9: every key of the forward map has a metrics entry whose Na and Nc are
\* the recorded counts and whose A is Na/Nc when Nc > 0 and exactly 0 when
\* Nc = 0.
AbstractnessFormula ==
   Succeeded =>
      /\ DOMAIN retMetrics.Packages = DOMAIN a.dependencies
      /\ \A P \in DOMAIN a.dependencies :
            LET m == retMetrics.Packages[P] IN
            /\ m.Na = a.abstractTypes[P]
            /\ m.Nc = a.totalTypes[P]
            /\ m.Nc > 0 =>
                  /\ m.Abstractness.den > 0
                  /\ m.Abstractness.num * m.Nc = m.Na * m.Abstractness.den
            /\ m.Nc = 0 => m.Abstractness = [num |-> 0, den |-> 1]

\* C9 witness: the metrics hold a package without counted declarations and a
\* package with both abstract and concrete ones.
AbstractnessWitness ==
   /\ Succeeded
   /\ \E P \in DOMAIN retMetrics.Packages : retMetrics.Packages[P].Nc = 0
   /\ \E P \in DOMAIN retMetrics.Packages :
         /\ retMetrics.Packages[P].Na > 0
         /\ retMetrics.Packages[P].Nc > retMetrics.Packages[P].Na

\* every result a worker holds or has sent
ResultsProduced ==
   { workers[w].result : w \in DOMAIN workers } \cup Range(results)

\* C10: D = |A + I - 1| and 0 <= D <= 1 for every package, with A and I in
\* [0,1], and every result has 0 <= abstractCount <= totalTypesCount.
DistanceFormula ==
   /\ \A r \in ResultsProduced :
         0 <= r.abstractCount /\ r.abstractCount <= r.totalTypesCount
   /\ \A P \in DOMAIN retMetrics.Packages :
         LET m == retMetrics.Packages[P]
             A == m.Abstractness
             I == m.Instability
             D == m.Distance
         IN  /\ A.den > 0 /\ I.den > 0 /\ D.den > 0
             /\ 0 <= A.num /\ A.num <= A.den
             /\ 0 <= I.num /\ I.num <= I.den
             /\ D.num * A.den * I.den =
                   D.den * AbsInt(A.num * I.den + I.num * A.den - A.den * I.den)
             /\ 0 <= D.num /\ D.num <= D.den

\* C10 witness: the metrics hold a package at distance exactly 1 and a package
\* with positive A and I strictly between the main sequence and distance 1.
DistanceWitness ==
   /\ Succeeded
   /\ \E P \in DOMAIN retMetrics.Packages :
         retMetrics.Packages[P].Distance = [num |-> 1, den |-> 1]
   /\ \E P \in DOMAIN retMetrics.Packages :
         /\ retMetrics.Packages[P].Distance.num > 0
         /\ retMetrics.Packages[P].Distance.num < retMetrics.Packages[P].Distance.den
         /\ retMetrics.Packages[P].Abstractness.num > 0
         /\ retMetrics.Packages[P].Instability.num > 0

\* the value n/d of a metric
IsFrac(x, n, d) == x.den > 0 /\ x.num * d = n * x.den

\* C11: package A (one interface, one standalone function, no import of B)
\* and package B (imports A, one struct) get, in either arrival order,
\* A: Ca=1 Ce=0 Na=1 Nc=2 I=0 A=0.5 D=0.5 and B: Ca=0 Ce=1 Na=0 Nc=1 I=1 A=0 D=0.
TwoPackageScenario ==
   (Succeeded /\ pkgs = <<Catalogue[1], Catalogue[2]>>) =>
      /\ DOMAIN retMetrics.Packages = {"github.com/org/mod/a", "github.com/org/mod/b"}
      /\ LET A == retMetrics.Packages["github.com/org/mod/a"]
             B == retMetrics.Packages["github.com/org/mod/b"]
         IN  /\ A.Ca = 1 /\ A.Ce = 0 /\ A.Na = 1 /\ A.Nc = 2
             /\ IsFrac(A.Instability, 0, 1)
             /\ IsFrac(A.Abstractness, 1, 2)
             /\ IsFrac(A.Distance, 1, 2)
             /\ B.Ca = 0 /\ B.Ce = 1 /\ B.Na = 0 /\ B.Nc = 1
             /\ IsFrac(B.Instability, 1, 1)
             /\ IsFrac(B.Abstractness, 0, 1)
             /\ IsFrac(B.Distance, 0, 1)

\* C11 witness: the scenario ran to the end with B's result arriving first.
TwoPackageWitness ==
   /\ Succeeded
   /\ pkgs = <<Catalogue[1], Catalogue[2]>>
   /\ arrival = <<2, 1>>

\* ------------------------------------------------------------------------
\* isStandardLibraryPackage evaluated on its own
\* ------------------------------------------------------------------------
\* the analyzer is constructed but Analyze is not running
PipelineIdle ==
   /\ moduleName = ""
   /\ pkgs = <<>>
   /\ numCPU = 1
   /\ pc = "idle"
   /\ sent = 0
   /\ jobs = <<>>
   /\ jobsClosed = FALSE
   /\ results = <<>>
   /\ resultsClosed = FALSE
   /\ workers = <<>>
   /\ wg = 0
   /\ closer = "notStarted"
   /\ a = NewModuleAnalyzer
   /\ retMetrics = NilMetrics
   /\ retErr = <<>>
   /\ taken = <<>>
   /\ produced = <<>>
   /\ arrival = <<>>

\* all strings over the alphabet {m, ., /} of at most n characters
StringsUpTo(n) == UNION { [1..k -> {"m", ".", "/"}] : k \in 0..n }

\* the characters of "github.com/org/mod/pkg/x"
ExamplePkgX == Chars[ModuleIdentity] \o <<"/", "p", "k", "g", "/", "x">>

\* the paths of the documented examples
ExamplePaths ==
   { Chars["fmt"], Chars["other.org/ext"], Chars["vendor/x"], ExamplePkgX }

ClassifyInit ==
   /\ PipelineIdle
   /\ bl = <<>> /\ lp = <<>> /\ sink = <<>> /\ requests = <<>>
   /\ dargs = <<>> /\ walk = <<>> /\ callbacks = <<>>
   /\ call \in ([path : StringsUpTo(MaxPathLen), module : StringsUpTo(MaxModuleLen)]
                \cup [path : ExamplePaths, module : {Chars[ModuleIdentity], <<>>}])
   /\ ret = [done |-> FALSE, value |-> FALSE]

\* analyzer.go:229-256
Classify ==
   /\ ~ret.done
   /\ ret' = [done |-> TRUE, value |-> isStandardLibraryPath(call.path, call.module)]
   /\ UNCHANGED <<pipeline, call, bl, lp, sink, requests, dargs, walk, callbacks>>

SpecClassify == ClassifyInit /\ [][Classify]_vars

\* every dot of p comes after a slash
NoDotInFirstSegment(p) ==
   \A i \in 1..Len(p) : p[i] = "." => \E j \in 1..(i - 1) : p[j] = "/"

StartsWith(p, m) ==
   /\ Len(m) <= Len(p)
   /\ \A i \in 1..Len(m) : p[i] = m[i]

\* C12: with a non-empty module identity M the function is true exactly
\* when the first segment of p has no dot and p does not start with M; a path
\* that starts with M is module-local; "fmt" is standard library and
\* github.com/org/mod/pkg/x is module-local for M = github.com/org/mod.
KnownModuleClassification ==
   (ret.done /\ call.module # <<>>) =>
      /\ ret.value <=> (NoDotInFirstSegment(call.path) /\ ~StartsWith(call.path, call.module))
      /\ StartsWith(call.path, call.module) => ~ret.value
      /\ (call.module = Chars[ModuleIdentity] /\ call.path = Chars["fmt"]) => ret.value
      /\ (call.module = Chars[ModuleIdentity] /\ call.path = ExamplePkgX) => ~ret.value

\* C12 witness: a path whose first segment has no dot but which starts with
\* the module identity was classified.
KnownModuleWitness ==
   /\ ret.done
   /\ call.module = <<"m">>
   /\ call.path = <<"m", "/", ".">>
   /\ ~ret.value

\* ------------------------------------------------------------------------
\* The type count of analyzePackage on a package that grows by one
\* declaration at a time
\* ------------------------------------------------------------------------
DeclVariants ==
   { Decl("interface"), Decl("struct"), Decl("alias"), Decl("func"), Decl("method"),
     [kind |-> "func", locals |-> <<"interface">>],
     [kind |-> "method", locals |-> <<"struct">>] }

EmptyPackage == [ID |-> "github.com/org/mod/a", Imports |-> {}, GoFiles |-> <<>>]

\* number of declarations in all files of the package
TotalDecls(pkg) == Sum([i \in 1..Len(pkg.GoFiles) |-> Len(pkg.GoFiles[i].decls)])

CountInit ==
   /\ PipelineIdle
   /\ bl = <<>> /\ lp = <<>> /\ sink = <<>> /\ requests = <<>>
   /\ dargs = <<>> /\ walk = <<>> /\ callbacks = <<>>
   /\ call = [pkg |-> EmptyPackage, added |-> [kind |-> "none", locals |-> <<>>]]
   /\ ret = analyzePackage(EmptyPackage, ModuleIdentity, <<>>)

\* the package gets one more (empty) file and is analysed (analyzer.go:191)
AddFile ==
   /\ Len(call.pkg.GoFiles) < MaxFiles
   /\ LET pkg == [call.pkg EXCEPT !.GoFiles = Append(@, GoFile(<<>>))]
      IN  /\ call' = [pkg |-> pkg, added |-> [kind |-> "file", locals |-> <<>>]]
          /\ ret' = analyzePackage(pkg, ModuleIdentity, <<>>)
   /\ UNCHANGED <<pipeline, bl, lp, sink, requests, dargs, walk, callbacks>>

\* the last file gets one more declaration and the package is analysed
\* (analyzer.go:200-217)
AddDecl(d) ==
   /\ Len(call.pkg.GoFiles) > 0
   /\ TotalDecls(call.pkg) < MaxDecls
   /\ LET n == Len(call.pkg.GoFiles)
          pkg == [call.pkg EXCEPT !.GoFiles[n].decls = Append(@, d)]
      IN  /\ call' = [pkg |-> pkg, added |-> d]
          /\ ret' = analyzePackage(pkg, ModuleIdentity, <<>>)
   /\ UNCHANGED <<pipeline, bl, lp, sink, requests, dargs, walk, callbacks>>

CountNext ==
   \/ AddFile
   \/ \E d \in DeclVariants : AddDecl(d)

SpecCount == CountInit /\ [][CountNext]_vars

\* the type specs of the given kind that a declaration holds
KindIn(d, kind) ==
   (IF d.kind = kind THEN 1 ELSE 0)
   + Cardinality({ j \in 1..Len(d.locals) : d.locals[j] = kind })

\* the declarations of the package as (file, index) pairs
DeclsOf(pkg) ==
   { fi \in (1..Len(pkg.GoFiles)) \X (1..MaxDecls + 1) :
        fi[2] <= Len(pkg.GoFiles[fi[1]].decls) }

DefaultBatchSize == 100
progressStart == 10
progressEnd == 80
progressRange == progressEnd - progressStart

\* the import paths of the package descriptors handed to LoadPackages
InfoPaths == <<"p1", "p2", "p3", "p4", "p5">>

NewBatchLoader(batchSize, hasReporter, totalPackages) ==
   [batchSize |-> IF batchSize <= 0 THEN DefaultBatchSize ELSE batchSize,
    hasReporter |-> hasReporter,
    totalPackages |-> totalPackages]

Min(x, y) == IF x < y THEN x ELSE y

\* progressStart + (packagesLoaded * progressRange / bl.totalPackages)
LoadProgress(packagesLoaded, totalPackages) ==
   progressStart + ((packagesLoaded * progressRange) \div totalPackages)

Clamp(progress) == IF progress > progressEnd THEN progressEnd ELSE progress

\* a variant that skips one descriptor between batches
NextIndexSkipping(i, batchSize) == i + batchSize + 1

\* the post statement of the batch loop
NextIndex(i, batchSize) == i + batchSize

\* the nil error of LoadPackages
NoLoadError == [msg |-> NoError, path |-> ""]

\* a variant that names the last path of the batch
LoadErrorLastPath(batchPaths) ==
   [msg |-> "failed to load packages batch starting at", path |-> batchPaths[Len(batchPaths)]]

LoadError(batchPaths) ==
   [msg |-> "failed to load packages batch starting at", path |-> batchPaths[1]]

\* what packages.Load may answer to a request: the packages of the first k
\* paths, or one package more than requested; withErrors marks the first
\* package as carrying pkg.Errors
LoadAnswers(batchPaths) ==
   { [i \in 1..k |-> [ID |-> IF i <= Len(batchPaths) THEN batchPaths[i] ELSE "extra",
                      Errors |-> (withErrors /\ i = 1)]] :
        k \in 0..(Len(batchPaths) + 1), withErrors \in BOOLEAN }

LoadInit ==
   /\ PipelineIdle
   /\ ret = <<>>
   /\ dargs = <<>> /\ walk = <<>> /\ callbacks = <<>>
   /\ \E batchSize \in -1..MaxBatch, hasReporter \in BOOLEAN, totalPackages \in 0..MaxInfos :
         /\ call = [batchSize |-> batchSize]
         /\ bl = NewBatchLoader(batchSize, hasReporter, totalPackages)
   /\ \E n \in 0..MaxInfos :
         lp = [pc |-> "loop", packageInfos |-> SubSeq(InfoPaths, 1, n), i |-> 0,
               batchPaths |-> <<>>, pkgs |-> <<>>, allPackages |-> <<>>,
               packagesLoaded |-> 0, ret |-> <<>>, err |-> NoLoadError]
   /\ sink = <<>>
   /\ requests = <<>>

\* lines 213-233: loop test, batch boundaries, the update before the batch
BatchBegin ==
   /\ lp.pc = "loop"
   /\ lp.i < Len(lp.packageInfos)
   /\ LET end == Min(lp.i + bl.batchSize, Len(lp.packageInfos))
          batchPaths == SubSeq(lp.packageInfos, lp.i + 1, end)
          reports == bl.hasReporter /\ Len(batchPaths) > 0
      IN  IF reports /\ bl.totalPackages = 0
          THEN \* integer division by zero
               /\ lp' = [lp EXCEPT !.pc = "panic", !.batchPaths = batchPaths]
               /\ sink' = sink
          ELSE /\ lp' = [lp EXCEPT !.pc = "load", !.batchPaths = batchPaths]
               /\ sink' = IF reports
                          THEN Append(sink,
                                  [progress |-> LoadProgress(lp.packagesLoaded, bl.totalPackages),
                                   description |-> <<"Loading", lp.packagesLoaded + Len(batchPaths),
                                                     bl.totalPackages>>])
                          ELSE sink
   /\ UNCHANGED <<pipeline, call, ret, bl, requests, dargs, walk, callbacks>>

\* a variant that drops the packages that carry errors
LoadBatchDroppingErrors ==
   /\ lp.pc = "load"
   /\ requests' = Append(requests, lp.batchPaths)
   /\ \E loaded \in LoadAnswers(lp.batchPaths) :
         LET kept == SelectSeq(loaded, LAMBDA pkg : ~pkg.Errors)
             packagesLoaded == lp.packagesLoaded + Len(kept)
         IN  /\ lp' = [lp EXCEPT !.pc = "loop",
                                 !.pkgs = loaded,
                                 !.allPackages = @ \o kept,
                                 !.packagesLoaded = packagesLoaded,
                                 !.i = NextIndex(@, bl.batchSize)]
             /\ sink' = IF bl.hasReporter
                        THEN Append(sink,
                                [progress |-> Clamp(LoadProgress(packagesLoaded, bl.totalPackages)),
                                 description |-> <<"Loaded", packagesLoaded, bl.totalPackages>>])
                        ELSE sink
   /\ UNCHANGED <<pipeline, call, ret, bl, dargs, walk, callbacks>>

\* lines 236-261: packages.Load answers, the packages are appended and the
\* update after the batch is sent (with a reporter bl.totalPackages is not 0
\* here: line 228 has divided by it)
LoadBatch ==
   /\ lp.pc = "load"
   /\ requests' = Append(requests, lp.batchPaths)
   /\ \E loaded \in LoadAnswers(lp.batchPaths) :
         LET packagesLoaded == lp.packagesLoaded + Len(loaded)
         IN  /\ lp' = [lp EXCEPT !.pc = "loop",
                                 !.pkgs = loaded,
                                 !.allPackages = @ \o loaded,
                                 !.packagesLoaded = packagesLoaded,
                                 !.i = NextIndex(@, bl.batchSize)]
             /\ sink' = IF bl.hasReporter
                        THEN Append(sink,
                                [progress |-> Clamp(LoadProgress(packagesLoaded, bl.totalPackages)),
                                 description |-> <<"Loaded", packagesLoaded, bl.totalPackages>>])
                        ELSE sink
   /\ UNCHANGED <<pipeline, call, ret, bl, dargs, walk, callbacks>>

\* lines 236-239: packages.Load fails
LoadBatchFail ==
   /\ lp.pc = "load"
   /\ requests' = Append(requests, lp.batchPaths)
   /\ lp' = [lp EXCEPT !.pc = "done", !.ret = <<>>, !.err = LoadError(lp.batchPaths)]
   /\ UNCHANGED <<pipeline, call, ret, bl, sink, dargs, walk, callbacks>>

\* line 264
LoadReturn ==
   /\ lp.pc = "loop"
   /\ lp.i >= Len(lp.packageInfos)
   /\ lp' = [lp EXCEPT !.pc = "done", !.ret = lp.allPackages, !.err = NoLoadError]
   /\ UNCHANGED <<pipeline, call, ret, bl, sink, requests, dargs, walk, callbacks>>

LoadNext ==
   \/ BatchBegin
   \/ LoadBatch
   \/ LoadBatchFail
   \/ LoadReturn

SpecLoad == LoadInit /\ [][LoadNext]_vars

\* the paths of all requests, in order
RECURSIVE Flatten(_)
Flatten(seqs) == IF Len(seqs) = 0 THEN <<>> ELSE Head(seqs) \o Flatten(Tail(seqs))

\* C14: the load requests are consecutive non-empty slices of the descriptor
\* sequence, all but the last of exactly the batch size (100 for a
\* non-positive argument), and after a successful return their concatenation
\* is the whole sequence of import paths.
BatchSlicing ==
   LET size == IF call.batchSize <= 0 THEN 100 ELSE call.batchSize
       all == Flatten(requests)
   IN  /\ \A r \in 1..Len(requests) :
             /\ Len(requests[r]) > 0
             /\ Len(requests[r]) <= size
             /\ r < Len(requests) => Len(requests[r]) = size
       /\ Len(all) <= Len(lp.packageInfos)
       /\ all = SubSeq(lp.packageInfos, 1, Len(all))
       /\ (lp.pc = "done" /\ lp.err.msg = NoError) => all = lp.packageInfos

\* C14 witness: three descriptors were loaded in a batch of two and a last
\* batch of one.
BatchSlicingWitness ==
   /\ lp.pc = "done"
   /\ lp.err.msg = NoError
   /\ call.batchSize = 2
   /\ requests = << <<"p1", "p2">>, <<"p3">> >>

\* C15: after a failed batch LoadPackages has returned no packages and an
\* error naming the first path of the failing batch, which is the last
\* request; the failing batch got its update before but none after, and
\* nothing is requested or reported afterwards.
LoadFailureAborts ==
   /\ [](lp.pc = "done" /\ lp.err.msg # NoError
            => /\ lp.ret = <<>>
               /\ requests # <<>>
               /\ lp.err.path = Head(requests[Len(requests)])
               /\ lp.err.path = lp.packageInfos[Len(Flatten(requests)) - Len(requests[Len(requests)]) + 1]
               /\ Len(sink) = IF bl.hasReporter THEN 2 * Len(requests) - 1 ELSE 0)
   /\ [][lp.pc = "done" => requests' = requests /\ sink' = sink /\ lp' = lp]_vars

\* C15 witness: the second batch of two failed after the first had loaded
\* its packages.
LoadFailureWitness ==
   /\ lp.pc = "done"
   /\ lp.err.msg # NoError
   /\ lp.allPackages # <<>>
   /\ requests = << <<"p1", "p2">>, <<"p3">> >>
   /\ Len(sink) = 3


\* C16: every progress value that LoadPackages reports lies in the loading
\* phase, between progressStart and progressEnd.
ProgressWithinLoadingPhase ==
   \A k \in 1..Len(sink) :
      /\ sink[k].progress >= progressStart
      /\ sink[k].progress <= progressEnd

\* C17: the successive progress values that LoadPackages reports never
\* decrease.
ProgressNonDecreasing ==
   \A k \in 1..(Len(sink) - 1) : sink[k].progress <= sink[k + 1].progress

\* ------------------------------------------------------------------------
\* discoverPackages (discovery.go:37-143): names and paths are character
\* sequences, the file tree maps directories below the module root to what
\* they hold
\* ------------------------------------------------------------------------
Slash == <<"/">>
Dot == <<".">>
DotGit == <<".", "g", "i", "t">>
DotIdea == <<".", "i", "d", "e", "a">>
NodeModules == <<"n", "o", "d", "e", "_", "m", "o", "d", "u", "l", "e", "s">>
Vendor == <<"v", "e", "n", "d", "o", "r">>
Testdata == <<"t", "e", "s", "t", "d", "a", "t", "a">>
GoSuffix == <<".", "g", "o">>
TestGoSuffix == <<"_", "t", "e", "s", "t", ".", "g", "o">>
PatternAll == <<".", "/", ".", ".", ".">>

\* strings.HasSuffix
HasSuffix(s, suffix) ==
   /\ Len(suffix) <= Len(s)
   /\ SubSeq(s, Len(s) - Len(suffix) + 1, Len(s)) = suffix

\* the characters in byte order
CharOrder ==
   <<".", "/", "_", "a", "b", "c", "d", "e", "f", "g", "h", "i", "j", "k", "l", "m",
     "n", "o", "p", "q", "r", "s", "t", "u", "v", "w", "x", "y", "z">>

Rank(c) == CHOOSE i \in 1..Len(CharOrder) : CharOrder[i] = c

RECURSIVE LessName(_, _)
\* byte-wise string order, by which os.ReadDir sorts the entries
LessName(x, y) ==
   IF x = <<>> THEN y # <<>>
   ELSE IF y = <<>> THEN FALSE
   ELSE IF Head(x) = Head(y) THEN LessName(Tail(x), Tail(y))
   ELSE Rank(Head(x)) < Rank(Head(y))

\* filepath.Join of two clean paths
filepathJoin(x, y) ==
   IF y = <<>> THEN x
   ELSE IF Head(y) = "/" THEN x \o y
   ELSE x \o Slash \o y

\* filepath.Rel for a target at or below the base
filepathRel(base, target) ==
   IF target = base THEN Dot ELSE TrimPrefix(target, base \o Slash)

\* the last element of the path, as fs.DirEntry.Name gives it
Base(path) == Last(Split(path, "/"))

\* the module root as main.go passes it (filepath.Abs)
ModulePath == <<"/", "r">>

\* the directories that may exist below the module root
DirUniverse == { DotGit, <<"a">>, <<"a", "/", "b">>, <<"r">>, Vendor }

AbsPath(rel) == filepathJoin(ModulePath, rel)

\* what a directory holds; "absent" for a directory that does not exist
Kinds == {"absent", "unreadable", "empty", "src", "test", "mixed"}

XGo == <<"x", ".", "g", "o">>
XTestGo == <<"x", "_", "t", "e", "s", "t", ".", "g", "o">>

FilesOf(kind) ==
   CASE kind = "src" -> {XGo}
     [] kind = "test" -> {XTestGo}
     [] kind = "mixed" -> {XGo, XTestGo}
     [] OTHER -> {}

\* the file trees: directories exist only in a directory that exists and can
\* be read, at most MaxDirs directories below the root
Trees ==
   { t \in [DirUniverse \cup {<<>>} -> Kinds] :
        /\ t[<<>>] \in {"absent", "unreadable"} => \A d \in DirUniverse : t[d] = "absent"
        /\ t[<<"a", "/", "b">>] # "absent" => t[<<"a">>] \notin {"absent", "unreadable"}
        /\ Cardinality({ d \in DirUniverse : t[d] # "absent" }) <= MaxDirs }

\* the directory found at an absolute path
Stat(tree, path) ==
   IF \E d \in DOMAIN tree : AbsPath(d) = path
   THEN tree[CHOOSE d \in DOMAIN tree : AbsPath(d) = path]
   ELSE "absent"

\* the entries of the directory at an absolute path
Entries(tree, path) ==
   { [name |-> Base(AbsPath(d)), kind |-> "dir"] :
        d \in { e \in DOMAIN tree : /\ e # <<>>
                                    /\ tree[e] # "absent"
                                    /\ AbsPath(e) = filepathJoin(path, Base(AbsPath(e))) } }
   \cup { [name |-> f, kind |-> "file"] : f \in FilesOf(Stat(tree, path)) }

RECURSIVE SortEntries(_)
SortEntries(entries) ==
   IF entries = {} THEN <<>>
   ELSE LET first == CHOOSE e \in entries : \A o \in entries \ {e} : LessName(e.name, o.name)
        IN  <<first>> \o SortEntries(entries \ {first})


Patterns == { <<>>, PatternAll, Dot, <<"a">> }

\* lines 43-46
searchPath(modulePath, pattern) ==
   IF pattern # <<>> /\ pattern # PatternAll /\ pattern # Dot
   THEN filepathJoin(modulePath, pattern)
   ELSE modulePath

\* a variant in which the empty pattern matches the root package only
matchesPatternEmptyAsSelf(importPath, module, pattern) ==
   IF pattern = PatternAll THEN HasPrefix(importPath, module)
   ELSE IF pattern = Dot \/ pattern = <<>> THEN importPath = module
   ELSE HasPrefix(importPath, filepathJoin(module, pattern))

\* a variant in which a sub-path pattern matches its own package only
matchesPatternExact(importPath, module, pattern) ==
   IF pattern = <<>> \/ pattern = PatternAll THEN HasPrefix(importPath, module)
   ELSE IF pattern = Dot THEN importPath = module
   ELSE importPath = filepathJoin(module, pattern)

matchesPattern(importPath, module, pattern) ==
   IF pattern = <<>> \/ pattern = PatternAll THEN HasPrefix(importPath, module)
   ELSE IF pattern = Dot THEN importPath = module
   ELSE HasPrefix(importPath, filepathJoin(module, pattern))

\* lines 61-62
isSkippedDir(dirName) ==
   \/ dirName \in {DotGit, DotIdea, NodeModules, Vendor, Testdata}
   \/ HasPrefix(dirName, Dot)

\* lines 67-77: the directory is read through dirFS, which opens
\* filepath.Join(root, name)
hasGoFiles(tree, modulePath, path) ==
   LET name == TrimPrefix(path, modulePath \o Slash)
       opened == filepathJoin(modulePath, name)
   IN  \E f \in FilesOf(Stat(tree, opened)) :
          HasSuffix(f, GoSuffix) /\ ~HasSuffix(f, TestGoSuffix)

\* lines 81-89
importPathOf(modulePath, module, path) ==
   LET relPath == filepathRel(modulePath, path)
   IN  IF relPath # Dot THEN filepathJoin(module, relPath) ELSE module

\* a variant without the cap
discoveryProgressUncapped(packagesFound) == packagesFound \div 3

\* lines 102-105: the progress derived from the number of matched packages
discoveryProgress(packagesFound) ==
   Min(packagesFound \div 3, 10)

\* the state of a walk before its first callback: filepath.WalkDir starts
\* at the search path, with the error of os.Lstat if it does not exist
StartWalk(args) ==
   LET root == searchPath(args.modulePath, args.pattern)
   IN  [walk |-> [worklist |-> <<[path |-> root,
                                  kind |-> IF Stat(args.tree, root) = "absent"
                                           THEN "err" ELSE "dir"]>>,
                  packages |-> <<>>, packagesFound |-> 0, lastProgress |-> 0,
                  done |-> FALSE, ret |-> <<>>, err |-> NoError],
        callbacks |-> <<>>]

\* line 50-52: what the callback returns to filepath.WalkDir when it is
\* called with an error
WalkFnOnError == NoError

\* one callback of filepath.WalkDir on the next entry, and the descent into
\* the entry when it is a directory that the callback did not skip; a
\* directory that cannot be read gets a second callback with the error
WalkStep(st, args) ==
   LET head == Head(st.walk.worklist)
       rest == Tail(st.walk.worklist)
       children == SortEntries(Entries(args.tree, head.path))
       below == IF Stat(args.tree, head.path) = "unreadable"
                THEN <<[path |-> head.path, kind |-> "err"]>>
                ELSE [k \in 1..Len(children) |->
                        [path |-> filepathJoin(head.path, children[k].name),
                         kind |-> children[k].kind]]
       importPath == importPathOf(args.modulePath, args.moduleName, head.path)
       packagesFound == st.walk.packagesFound + 1
       progress == discoveryProgress(packagesFound)
   IN  IF head.kind = "err"
       THEN [st EXCEPT !.walk.worklist = IF WalkFnOnError = NoError THEN rest ELSE <<>>,
                       !.walk.err = WalkFnOnError]
       ELSE IF head.kind # "dir"
       THEN [st EXCEPT !.walk.worklist = rest]
       ELSE IF isSkippedDir(Base(head.path))
       THEN [st EXCEPT !.walk.worklist = rest]
       ELSE IF /\ hasGoFiles(args.tree, args.modulePath, head.path)
               /\ matchesPattern(importPath, args.moduleName, args.pattern)
       THEN [walk |-> [st.walk EXCEPT
                          !.worklist = below \o rest,
                          !.packages = Append(@, [ImportPath |-> importPath,
                                                  Dir |-> head.path,
                                                  HasGoFiles |-> TRUE]),
                          !.packagesFound = packagesFound,
                          !.lastProgress = IF progress > @ THEN progress ELSE @],
             callbacks |-> IF progress > st.walk.lastProgress
                           THEN Append(st.callbacks, packagesFound)
                           ELSE st.callbacks]
       ELSE [st EXCEPT !.walk.worklist = below \o rest]

DiscoverInit ==
   /\ PipelineIdle
   /\ call = <<>> /\ ret = <<>> /\ bl = <<>> /\ lp = <<>>
   /\ sink = <<>> /\ requests = <<>>
   /\ \E tree \in Trees, pattern \in Patterns :
         dargs = [tree |-> tree, modulePath |-> ModulePath,
                  moduleName |-> Chars[ModuleIdentity], pattern |-> pattern]
   /\ walk = StartWalk(dargs).walk
   /\ callbacks = StartWalk(dargs).callbacks

\* lines 49-114: the callback on the next entry of the walk
Visit ==
   /\ ~walk.done
   /\ walk.worklist # <<>>
   /\ LET st == WalkStep([walk |-> walk, callbacks |-> callbacks], dargs)
      IN  /\ walk' = st.walk
          /\ callbacks' = st.callbacks
   /\ UNCHANGED <<pipeline, call, ret, bl, lp, sink, requests, dargs>>

\* line 116
DiscoverReturn ==
   /\ ~walk.done
   /\ walk.worklist = <<>>
   /\ walk' = [walk EXCEPT !.done = TRUE, !.ret = walk.packages]
   /\ UNCHANGED <<pipeline, call, ret, bl, lp, sink, requests, dargs, callbacks>>

DiscoverNext ==
   \/ Visit
   \/ DiscoverReturn

SpecDiscover == DiscoverInit /\ [][DiscoverNext]_vars


\* the directories of the tree that hold a non-test source file and are
\* neither skipped nor below a skipped directory
SourceDirs(tree) ==
   { d \in DOMAIN tree :
        /\ tree[d] \in {"src", "mixed"}
        /\ \A k \in 1..Len(Split(d, "/")) :
              LET seg == Split(d, "/")[k]
              IN  seg = <<>> \/ ~(seg \in {DotGit, Vendor} \/ Head(seg) = ".") }

\* C18: for the patterns "" and "./..." the returned descriptors are, once
\* each, the directories of the tree that hold a non-test source file, the
\* root included, with the module identity joined with the relative path as
\* import path.
DiscoversEverySourceDir ==
   (walk.done /\ dargs.pattern \in {<<>>, PatternAll})
      => /\ Len(walk.ret) = Cardinality(SourceDirs(dargs.tree))
         /\ \A d \in SourceDirs(dargs.tree) :
               \E k \in 1..Len(walk.ret) :
                  /\ walk.ret[k].Dir = (IF d = <<>> THEN ModulePath ELSE ModulePath \o Slash \o d)
                  /\ walk.ret[k].ImportPath
                        = (IF d = <<>> THEN dargs.moduleName ELSE dargs.moduleName \o Slash \o d)

RECURSIVE RunWalk(_, _)
\* the whole walk from a given state on, with the return at line 116
RunWalk(st, args) ==
   IF st.walk.worklist = <<>>
   THEN [st EXCEPT !.walk.done = TRUE, !.walk.ret = st.walk.packages]
   ELSE RunWalk(WalkStep(st, args), args)

\* the other of the two patterns "" and "./..."
OtherPattern(pattern) == IF pattern = <<>> THEN PatternAll ELSE <<>>

\* C19: a finished discovery with the pattern "" or "./..." has the search
\* root, the descriptors and the progress callbacks of the discovery of the
\* same tree with the other of the two patterns, and every descriptor's
\* import path starts with the module identity.
EmptyPatternIsRecursive ==
   (walk.done /\ dargs.pattern \in {<<>>, PatternAll})
      => LET twin == [dargs EXCEPT !.pattern = OtherPattern(dargs.pattern)]
             run == RunWalk(StartWalk(twin), twin)
         IN  /\ StartWalk(twin).walk.worklist[1].path = ModulePath
             /\ StartWalk(dargs).walk.worklist[1].path = ModulePath
             /\ run.walk = walk
             /\ run.callbacks = callbacks
             /\ \A k \in 1..Len(walk.ret) :
                   SubSeq(walk.ret[k].ImportPath, 1, Len(dargs.moduleName)) = dargs.moduleName

\* C19 witness: a discovery with the empty pattern found three packages
\* below the root and called the progress callback.
EmptyPatternWitness ==
   /\ walk.done
   /\ dargs.pattern = <<>>
   /\ Len(walk.ret) = 3
   /\ callbacks = <<3>>

\* C20: with the pattern "." no descriptor but the root package's is
\* returned, and it is returned when the root directory holds a non-test
\* source file.
SelfPatternRootOnly ==
   (walk.done /\ dargs.pattern = Dot)
      => /\ \A k \in 1..Len(walk.ret) : walk.ret[k].ImportPath = dargs.moduleName
         /\ dargs.tree[<<>>] \in {"src", "mixed"}
               => /\ Len(walk.ret) = 1
                  /\ walk.ret[1].Dir = ModulePath


\* C21: a discovery whose search root does not exist or cannot be read
\* returns a non-nil error.
SearchRootFailureIsFatal ==
   (/\ walk.done
    /\ Stat(dargs.tree, searchPath(dargs.modulePath, dargs.pattern)) \in {"absent", "unreadable"})
      => walk.err # NoError

\* ------------------------------------------------------------------------
\* getRelativePackagePath (analyzer.go:324-367) on bounded strings
\* ------------------------------------------------------------------------
ImportAlphabet == {"m", "x", "/", " "}
NameAlphabet == {"m", "/"}

\* all strings over the given alphabet of at most n characters
WordsUpTo(alphabet, n) == UNION { [1..k -> alphabet] : k \in 0..n }

DisplayInit ==
   /\ PipelineIdle
   /\ bl = <<>> /\ lp = <<>> /\ sink = <<>> /\ requests = <<>>
   /\ dargs = <<>> /\ walk = <<>> /\ callbacks = <<>>
   /\ call \in [path : WordsUpTo(ImportAlphabet, MaxImportLen),
                module : WordsUpTo(NameAlphabet, MaxNameLen)]
   /\ ret = [done |-> FALSE, value |-> <<>>]

\* analyzer.go:324-367
Display ==
   /\ ~ret.done
   /\ ret' = [done |-> TRUE, value |-> getRelativePath(call.path, call.module)]
   /\ UNCHANGED <<pipeline, call, bl, lp, sink, requests, dargs, walk, callbacks>>

SpecDisplay == DisplayInit /\ [][Display]_vars

\* the positions of the character c in p
Positions(p, c) == { i \in 1..Len(p) : p[i] = c }

\* p from the position after i on
After(p, i) == [k \in 1..(Len(p) - i) |-> p[i + k]]

\* p up to the character before its first space
BeforeSpace(p) ==
   [k \in 1..Cardinality({ i \in 1..Len(p) : \A j \in 1..i : p[j] # " " }) |-> p[k]]

\* the largest element of a non-empty set of positions
MaxOf(S) == CHOOSE i \in S : \A j \in S : j <= i

\* C22: the display name of the module identity M is the last segment of M,
\* that of M/rel is rel, and that of a path not starting with M (or with M
\* unknown) is the path up to its first space when that has at most two
\* segments and its last two segments otherwise.
DisplayName ==
   ret.done =>
      LET p == call.path
          M == call.module
          clean == BeforeSpace(p)
          slashes == Positions(clean, "/")
      IN  /\ (M # <<>> /\ p = M)
                => ret.value = After(M, IF Positions(M, "/") = {} THEN 0
                                        ELSE MaxOf(Positions(M, "/")))
          /\ (M # <<>> /\ StartsWith(p, M) /\ Len(p) > Len(M) + 1 /\ p[Len(M) + 1] = "/")
                => ret.value = After(p, Len(M) + 1)
          /\ (M = <<>> \/ ~StartsWith(p, M))
                => ret.value = IF Cardinality(slashes) <= 1 THEN clean
                               ELSE After(clean, MaxOf(slashes \ {MaxOf(slashes)}))

\* C22 witness: a three-segment path outside the module was shortened to
\* its last two segments.
DisplayNameWitness ==
   /\ ret.done
   /\ call.module = <<"m">>
   /\ call.path = <<"x", "/", "m", "/", "x">>
   /\ ret.value = <<"m", "/", "x">>

\* ------------------------------------------------------------------------
\* ConsoleProgressReporter (reporter/progress.go:14-61): the bar is what the
\* reporter has asked the progress bar to show, out counts the lines that
\* the reporter itself printed
\* ------------------------------------------------------------------------
ScaleTotal == 100

NilBar == [isNil |-> TRUE, max |-> 0, current |-> 0, description |-> "", finished |-> FALSE]

NewConsoleProgressReporter == [bar |-> NilBar, out |-> 0]

Descriptions == {"Discovering packages", "Loading packages"}

\* progress.go:26-41
ReporterSetTotal(r, total) ==
   [r EXCEPT !.bar = [isNil |-> FALSE, max |-> total, current |-> 0,
                      description |-> "", finished |-> FALSE]]

\* a variant that creates the bar on the first update
ReporterUpdateLazyBar(r, current, description) ==
   [r EXCEPT !.bar = [isNil |-> FALSE, max |-> IF r.bar.isNil THEN ScaleTotal ELSE r.bar.max,
                      current |-> current, description |-> description,
                      finished |-> r.bar.finished]]

\* progress.go:45-51
ReporterUpdate(r, current, description) ==
   IF r.bar.isNil THEN r
   ELSE [r EXCEPT !.bar.description = description, !.bar.current = current]

\* progress.go:54-61
ReporterComplete(r) ==
   IF r.bar.isNil THEN r
   ELSE [r EXCEPT !.bar.finished = TRUE, !.out = @ + 1]

ReporterInit ==
   /\ PipelineIdle
   /\ ret = <<>> /\ bl = <<>> /\ lp = <<>>
   /\ dargs = <<>> /\ walk = <<>> /\ callbacks = <<>>
   /\ call = [op |-> "new", total |-> 0, current |-> 0, description |-> ""]
   /\ sink = NewConsoleProgressReporter
   /\ requests = <<>>

SetTotal(total) ==
   /\ Len(requests) < MaxOps
   /\ call' = [op |-> "SetTotal", total |-> total, current |-> 0, description |-> ""]
   /\ sink' = ReporterSetTotal(sink, total)
   /\ requests' = Append(requests, "SetTotal")
   /\ UNCHANGED <<pipeline, ret, bl, lp, dargs, walk, callbacks>>

Update(current, description) ==
   /\ Len(requests) < MaxOps
   /\ call' = [op |-> "Update", total |-> 0, current |-> current, description |-> description]
   /\ sink' = ReporterUpdate(sink, current, description)
   /\ requests' = Append(requests, "Update")
   /\ UNCHANGED <<pipeline, ret, bl, lp, dargs, walk, callbacks>>

Complete ==
   /\ Len(requests) < MaxOps
   /\ call' = [op |-> "Complete", total |-> 0, current |-> 0, description |-> ""]
   /\ sink' = ReporterComplete(sink)
   /\ requests' = Append(requests, "Complete")
   /\ UNCHANGED <<pipeline, ret, bl, lp, dargs, walk, callbacks>>

ReporterNext ==
   \/ \E total \in {MaxValue, ScaleTotal} : SetTotal(total)
   \/ \E current \in 0..MaxValue, description \in Descriptions : Update(current, description)
   \/ Complete

SpecReporter == ReporterInit /\ [][ReporterNext]_vars

\* C23: as long as SetTotal has not been called the reporter has no bar and
\* has printed nothing, whatever Update and Complete calls were made; an
\* Update or Complete without a bar changes nothing, and an Update with a
\* bar sets the bar to the given value and description.
SinkToleratesEarlyCalls ==
   /\ []((\A k \in 1..Len(requests) : requests[k] # "SetTotal")
            => sink.bar.isNil /\ sink.out = 0)
   /\ [][/\ (sink.bar.isNil /\ call'.op \in {"Update", "Complete"}) => sink' = sink
         /\ (~sink.bar.isNil /\ call'.op = "Update")
               => /\ ~sink'.bar.isNil
                  /\ sink'.bar.current = call'.current
                  /\ sink'.bar.description = call'.description
                  /\ sink'.bar.max = sink.bar.max
                  /\ sink'.out = sink.out]_vars

\* C23 witness: Update and Complete came before SetTotal and left no trace,
\* the Update after SetTotal set the bar.
SinkToleratesWitness ==
   /\ requests = <<"Update", "Complete", "SetTotal", "Update">>
   /\ sink.bar.max = ScaleTotal
   /\ sink.bar.current = 1
   /\ ~sink.bar.finished
   /\ sink.out = 0

\* ------------------------------------------------------------------------
\* Analyze on a machine with more CPUs than the worker cap
\* ------------------------------------------------------------------------
PoolInit ==
   /\ moduleName = ModuleIdentity
   /\ pkgs \in { l \in PackageLists : Len(l) <= MaxPoolPkgs }
   /\ numCPU \in {MaxWorkers, MaxWorkers + 1}
   /\ pc = "findPackages"
   /\ sent = 0
   /\ jobs = <<>>
   /\ jobsClosed = FALSE
   /\ results = <<>>
   /\ resultsClosed = FALSE
   /\ workers = <<>>
   /\ wg = 0
   /\ closer = "notStarted"
   /\ a = NewModuleAnalyzer
   /\ retMetrics = NilMetrics
   /\ retErr = <<>>
   /\ taken = [i \in 1..Len(pkgs) |-> 0]
   /\ produced = [i \in 1..Len(pkgs) |-> 0]
   /\ arrival = <<>>
   /\ OtherIdle

SpecPool == PoolInit /\ [][Next]_vars


\* the packages that a worker has received and not yet sent a result for
InAnalysis == Sum(taken) - Sum(produced)

SingleWriter ==
   [][/\ a' # a => /\ pc = "results"
                   /\ pc' = "results"
                   /\ workers' = workers
                   /\ Len(results) > 0
                   /\ results' = Tail(results)
      /\ (workers # <<>> /\ workers' # workers)
            => /\ a' = a
               /\ pc' = pc
               /\ \E w \in DOMAIN workers :
                     /\ \A v \in DOMAIN workers \ {w} : workers'[v] = workers[v]
                     /\ workers'[w].pc = "send"
                           => \E importOrder \in Orders(pkgs[Head(jobs)].Imports) :
                                 workers'[w].result
                                    = analyzePackage(pkgs[Head(jobs)], moduleName, importOrder)
      /\ moduleName' = moduleName
      /\ pkgs' = pkgs]_vars

\* C25 witness: the result loop has written the maps while a worker holds a
\* result of its own.
SingleWriterWitness ==
   /\ pc = "results"
   /\ a # NewModuleAnalyzer
   /\ Len(results) > 0
   /\ \E w \in DOMAIN workers : workers[w].pc = "send"

\* ------------------------------------------------------------------------
\* Analyze under fair scheduling: the Go scheduler runs every goroutine
\* that can take a step
\* ------------------------------------------------------------------------
LiveInit ==
   /\ moduleName = ModuleIdentity
   /\ pkgs \in { l \in PackageLists : Len(l) <= MaxLivePkgs }
   /\ numCPU \in 1..MaxLiveCPU
   /\ pc = "findPackages"
   /\ sent = 0
   /\ jobs = <<>>
   /\ jobsClosed = FALSE
   /\ results = <<>>
   /\ resultsClosed = FALSE
   /\ workers = <<>>
   /\ wg = 0
   /\ closer = "notStarted"
   /\ a = NewModuleAnalyzer
   /\ retMetrics = NilMetrics
   /\ retErr = <<>>
   /\ taken = [i \in 1..Len(pkgs) |-> 0]
   /\ produced = [i \in 1..Len(pkgs) |-> 0]
   /\ arrival = <<>>
   /\ OtherIdle

\* the steps of the goroutines of parsePackages
ParseStep ==
   \/ StartWorkers
   \/ SendJob
   \/ CloseJobs
   \/ SpawnCloser
   \/ \E w \in 1..MaxWorkers : WorkerRecv(w)
   \/ \E w \in 1..MaxWorkers : WorkerSend(w)
   \/ \E w \in 1..MaxWorkers : WorkerExit(w)
   \/ CloseResults
   \/ AggregateResult
   \/ AggregateError
   \/ AggregateDone

FairSpec == LiveInit /\ [][Next]_vars /\ WF_vars(ParseStep)

\* C26: once the workers are started, eventually every worker has exited
\* and the results channel is closed, and parsePackages returns; no worker
\* waits at a full results channel.
ParseTerminates ==
   /\ (workers # <<>>) ~> (resultsClosed /\ \A w \in DOMAIN workers : workers[w].pc = "exited")
   /\ (pc = "startWorkers") ~> (pc \in {"calculateMetrics", "done"})
   /\ [](/\ \A w \in DOMAIN workers : workers[w].pc = "send" => Len(results) < Len(pkgs)
         /\ (pc = "sendJobs" /\ sent < Len(pkgs)) => Len(jobs) < Len(pkgs))

\* C26 witness: the result loop has returned on an error while a worker had
\* not exited, and in the end all workers have exited and results is closed.
ParseTerminatesWitness ==
   /\ pc = "done"
   /\ retErr # <<>>
   /\ workers # <<>>
   /\ resultsClosed
   /\ \A w \in DOMAIN workers : workers[w].pc = "exited"
   /\ Len(results) > 0


\* C27: the results channel is closed once, by the closer goroutine, and
\* only when every worker has exited; the jobs channel is closed only when
\* every package has been sent; no worker is about to send on the closed
\* results channel, and every result a worker sent is in the channel or was
\* received by the result loop.
ChannelDiscipline ==
   /\ [](/\ resultsClosed => /\ closer = "done"
                             /\ workers # <<>>
                             /\ \A w \in DOMAIN workers : workers[w].pc = "exited"
         /\ jobsClosed => sent = Len(pkgs)
         /\ \A w \in DOMAIN workers : workers[w].pc = "send" => ~resultsClosed
         /\ Sum(produced) = Len(results) + Len(arrival)
         /\ \A i \in 1..Len(pkgs) : produced[i] <= 1)
   /\ [][/\ resultsClosed => resultsClosed'
         /\ resultsClosed' # resultsClosed => closer = "wait" /\ closer' = "done"
         /\ closer = "done" => closer' = "done"
         /\ jobsClosed => /\ jobsClosed'
                          /\ jobs' = jobs \/ (jobs # <<>> /\ jobs' = Tail(jobs))]_vars

\* C27 witness: both channels are closed, all workers have exited and the
\* results of three packages have all been received or are in the channel.
ChannelDisciplineWitness ==
   /\ resultsClosed
   /\ jobsClosed
   /\ Len(pkgs) = 3
   /\ Sum(produced) = 3
   /\ Len(workers) = 2
   /\ Len(arrival) = 2


\* the phase of Analyze that a position belongs to
PhaseOf(p) ==
   CASE p = "findPackages" -> 1
     [] p \in {"startWorkers", "sendJobs", "spawnCloser", "results"} -> 2
     [] p = "calculateMetrics" -> 3
     [] OTHER -> 4

\* C28: no package reaches a worker before findPackages has returned; the
\* metrics are calculated only when the results channel is closed and
\* drained and the result of every package is folded; the phases follow
\* each other in order; after an error of findPackages no worker runs and
\* no map is written, and after any error no metrics are calculated.
PhasesInOrder ==
   /\ [](/\ pc = "findPackages"
               => workers = <<>> /\ sent = 0 /\ Sum(taken) = 0 /\ a = NewModuleAnalyzer
         /\ (pc = "calculateMetrics" \/ ~retMetrics.isNil)
               => /\ resultsClosed
                  /\ results = <<>>
                  /\ Len(arrival) = Len(pkgs)
                  /\ \A i \in 1..Len(pkgs) : \E k \in 1..Len(arrival) : arrival[k] = i
                  /\ retErr = <<>>
         /\ retErr # <<>> => pc = "done" /\ retMetrics.isNil
         /\ (retErr # <<>> /\ retErr[1] = "failed to find packages")
               => workers = <<>> /\ Sum(taken) = 0 /\ a = NewModuleAnalyzer)
   /\ [][/\ PhaseOf(pc') >= PhaseOf(pc)
         /\ PhaseOf(pc') > PhaseOf(pc) =>
               \/ PhaseOf(pc') = PhaseOf(pc) + 1
               \/ pc' = "done" /\ retErr' # <<>>]_vars

\* C28 witness: Analyze has returned the metrics of three packages after
\* folding the result of each.
PhasesInOrderWitness ==
   /\ pc = "done"
   /\ ~retMetrics.isNil
   /\ Len(pkgs) = 3
   /\ Len(arrival) = 3
   /\ retErr = <<>>


\* the IDs that analyzePackage filters: standard library or under vendor/
Filtered(id) ==
   \/ isStandardLibraryPackage(id, moduleName)
   \/ StartsWith(Chars[id], <<"v", "e", "n", "d", "o", "r", "/">>)

\* how often x occurs in the sequence
Occurrences(seq, x) == Cardinality({ k \in 1..Len(seq) : seq[k] = x })

UnknownModuleClassification ==
   (ret.done /\ call.module = <<>>) =>
      (ret.value <=> \A i \in 1..Len(call.path) : call.path[i] # ".")

\* C30 witness: with an empty module identity, a path whose only dot comes
\* after a slash was classified as not standard library.
UnknownModuleWitness ==
   /\ ret.done
   /\ call.module = <<>>
   /\ call.path = <<"m", "/", ".">>
   /\ ~ret.value


\* C31: only the added top-level declaration itself changes the counts; the
\* type specs inside its body change neither abstractCount nor
\* totalTypesCount.
TopLevelDeclarationsOnly ==
   [][LET d == call'.added IN
         /\ ret'.abstractCount - ret.abstractCount
               = (IF d.kind = "interface" THEN 1 ELSE 0)
         /\ ret'.totalTypesCount - ret.totalTypesCount
               = (IF d.kind \in {"interface", "struct", "func"} THEN 1 ELSE 0)]_vars


\* C32: whatever a successful packages.Load call returns, with or without
\* pkg.Errors, is appended to the output in return order and counted, no
\* error is set by it, and a successful LoadPackages returns all of it.
DiagnosticsAreNotFailures ==
   /\ [](/\ lp.packagesLoaded = Len(lp.allPackages)
         /\ (lp.pc = "done" /\ lp.err.msg = NoError) => lp.ret = lp.allPackages)
   /\ [][(lp.pc = "load" /\ lp'.pc = "loop")
            => /\ lp'.allPackages = lp.allPackages \o lp'.pkgs
               /\ lp'.packagesLoaded = lp.packagesLoaded + Len(lp'.pkgs)
               /\ lp'.err = NoLoadError]_vars

\* C32 witness: LoadPackages returned without error three packages of two
\* batches, the first of each batch carrying errors.
DiagnosticsWitness ==
   /\ lp.pc = "done"
   /\ lp.err.msg = NoError
   /\ Len(requests) = 2
   /\ Len(lp.ret) = 3
   /\ lp.ret[1].Errors /\ lp.ret[3].Errors
   /\ lp.packagesLoaded = 3


\* ------------------------------------------------------------------------
\* The progress callback of discoverPackages over a long walk: every
\* callback of the walk either matches one more package or leaves the
\* counters alone
\* ------------------------------------------------------------------------
ProgressInit ==
   /\ PipelineIdle
   /\ call = <<>> /\ ret = <<>> /\ bl = <<>> /\ lp = <<>>
   /\ sink = <<>> /\ requests = <<>>
   /\ dargs \in [hasProgressFunc : BOOLEAN]
   /\ walk = [visited |-> 0, packagesFound |-> 0, lastProgress |-> 0]
   /\ callbacks = <<>>

\* lines 92-110: the directory is a package that matches the pattern
VisitMatched ==
   /\ walk.visited < MaxVisits
   /\ LET packagesFound == walk.packagesFound + 1
          progress == discoveryProgress(packagesFound)
          fires == progress > walk.lastProgress /\ dargs.hasProgressFunc
      IN  /\ walk' = [visited |-> walk.visited + 1,
                      packagesFound |-> packagesFound,
                      lastProgress |-> IF fires THEN progress ELSE walk.lastProgress]
          /\ callbacks' = IF fires THEN Append(callbacks, packagesFound) ELSE callbacks
   /\ UNCHANGED <<pipeline, call, ret, bl, lp, sink, requests, dargs>>

\* lines 50-64, 79, 92: an entry that is not a matching package
VisitOther ==
   /\ walk.visited < MaxVisits
   /\ walk' = [walk EXCEPT !.visited = @ + 1]
   /\ UNCHANGED <<pipeline, call, ret, bl, lp, sink, requests, dargs, callbacks>>

SpecProgress == ProgressInit /\ [][VisitMatched \/ VisitOther]_vars

SkipUniverse ==
   { <<"a">>, <<"a", "/", "b">>, <<"a", "/">> \o Vendor, Vendor,
     Vendor \o <<"/", "a">>, Testdata, DotGit,
     DotGit \o <<"/", "a">>, NodeModules, DotIdea, <<".", "a">> }

\* the file trees: a readable root with at most MaxDirs directories, each
\* in a directory that exists
SkipTrees ==
   { t \in [SkipUniverse \cup {<<>>} -> {"absent", "empty", "src"}] :
        /\ t[<<>>] = "src"
        /\ \A d \in SkipUniverse :
              LET parts == Split(d, "/")
                  parent == Join(SubSeq(parts, 1, Len(parts) - 1), "/")
              IN  t[d] # "absent" => t[parent] # "absent"
        /\ Cardinality({ d \in SkipUniverse : t[d] # "absent" }) <= MaxDirs }

SkipInit ==
   /\ PipelineIdle
   /\ call = <<>> /\ ret = <<>> /\ bl = <<>> /\ lp = <<>>
   /\ sink = <<>> /\ requests = <<>>
   /\ \E tree \in SkipTrees, pattern \in { <<>>, <<"a">>, Vendor, Vendor \o <<"/", "a">> } :
         dargs = [tree |-> tree, modulePath |-> ModulePath,
                  moduleName |-> Chars[ModuleIdentity], pattern |-> pattern]
   /\ walk = StartWalk(dargs).walk
   /\ callbacks = StartWalk(dargs).callbacks

SpecSkip == SkipInit /\ [][DiscoverNext]_vars

\* the names that the walk does not descend into
SkippedName(name) ==
   \/ name \in {DotGit, DotIdea, NodeModules, Vendor, Testdata}
   \/ (name # <<>> /\ name[1] = ".")

\* C34: no returned descriptor's directory is, or lies below, a directory of
\* the module with one of the skipped names, and the module root itself is
\* walked.
NeverBelowSkippedDir ==
   walk.done =>
      /\ \A k \in 1..Len(walk.ret) :
            LET parts == Split(filepathRel(ModulePath, walk.ret[k].Dir), "/")
            IN  \A j \in 1..Len(parts) : parts = <<Dot>> \/ ~SkippedName(parts[j])
      /\ (dargs.pattern = <<>> /\ dargs.tree[<<"a">>] = "src")
            => \E k \in 1..Len(walk.ret) : walk.ret[k].Dir = ModulePath \o <<"/", "a">>


\* C35: with a sub-path pattern only the directory module root/pattern and
\* what lies below it is walked, every returned import path starts with
\* module identity/pattern, and every package found on the walk (a directory
\* with a source file that the walk reaches) is returned once.
SubPathPattern ==
   LET pat == dargs.pattern
       root == ModulePath \o Slash \o pat
       full == dargs.moduleName \o Slash \o pat
       depth == Len(Split(pat, "/"))
       Reached(d) ==
          /\ d = pat \/ StartsWith(d, pat \o Slash)
          /\ \A j \in depth..Len(Split(d, "/")) : ~SkippedName(Split(d, "/")[j])
       Found == { d \in DOMAIN dargs.tree : dargs.tree[d] = "src" /\ d # <<>> /\ Reached(d) }
   IN  pat \notin {<<>>, PatternAll, Dot} =>
          /\ \A k \in 1..Len(walk.worklist) :
                \/ walk.worklist[k].path = root
                \/ StartsWith(walk.worklist[k].path, root \o Slash)
          /\ \A k \in 1..Len(walk.packages) :
                /\ StartsWith(walk.packages[k].ImportPath, full)
                /\ walk.packages[k].Dir = root \/ StartsWith(walk.packages[k].Dir, root \o Slash)
          /\ walk.done =>
                /\ Len(walk.ret) = Cardinality(Found)
                /\ { walk.ret[k].ImportPath : k \in 1..Len(walk.ret) }
                      = { dargs.moduleName \o Slash \o d : d \in Found }

\* C35 witness: with the pattern "a" the packages a and a/b were returned
\* and the directory vendor of the same tree, which holds a source file,
\* was not.
SubPathPatternWitness ==
   /\ walk.done
   /\ dargs.pattern = <<"a">>
   /\ dargs.tree[Vendor] = "src"
   /\ Len(walk.ret) = 2
   /\ walk.ret[2].Dir = ModulePath \o <<"/", "a", "/", "b">>


\* C36: no progress computation of LoadPackages faults, whatever the
\* descriptors and the total-count hint.
NoProgressFault == lp.pc # "panic"


\* ------------------------------------------------------------------------
\* Analyze on a module whose root package and whose package mod have the
\* same display name
\* ------------------------------------------------------------------------
SameNameInit ==
   /\ moduleName = ModuleIdentity
   /\ LET root == [ID |-> "github.com/org/mod",
                   Imports |-> {"github.com/org/mod/mod", "other.org/ext"},
                   GoFiles |-> << GoFile(<<Decl("interface")>>) >>]
          mod == [ID |-> "github.com/org/mod/mod", Imports |-> {"fmt"},
                  GoFiles |-> << GoFile(<<Decl("struct")>>) >>]
          broken == [mod EXCEPT !.GoFiles = <<BadFile>>]
      IN  pkgs \in { <<root, mod>>, <<mod, root>>, <<root>>, <<root, broken>> }
   /\ numCPU \in 1..MaxLiveCPU
   /\ pc = "findPackages"
   /\ sent = 0
   /\ jobs = <<>>
   /\ jobsClosed = FALSE
   /\ results = <<>>
   /\ resultsClosed = FALSE
   /\ workers = <<>>
   /\ wg = 0
   /\ closer = "notStarted"
   /\ a = NewModuleAnalyzer
   /\ retMetrics = NilMetrics
   /\ retErr = <<>>
   /\ taken = [i \in 1..Len(pkgs) |-> 0]
   /\ produced = [i \in 1..Len(pkgs) |-> 0]
   /\ arrival = <<>>
   /\ OtherIdle

SpecSameName == SameNameInit /\ [][Next]_vars

\* C37: the metrics returned by a successful analysis have one entry per key
\* of the forward dependency map, keyed by the package ID, and no other: a
\* key of the reverse map that is no key of the forward map has no entry,
\* and packages with different IDs have different entries whatever their
\* display names.
OneEntryPerAnalysedPackage ==
   (pc = "done" /\ retErr = <<>>) =>
      /\ ~retMetrics.isNil
      /\ DOMAIN retMetrics.Packages = DOMAIN a.dependencies
      /\ DOMAIN a.dependencies = { pkgs[i].ID : i \in 1..Len(pkgs) }
      /\ Cardinality(DOMAIN retMetrics.Packages) = Len(pkgs)
      /\ \A Q \in DOMAIN a.reverseDepends :
            Q \notin DOMAIN a.dependencies => Q \notin DOMAIN retMetrics.Packages

\* C37 witness: the root package and the package mod, both displayed as
\* "mod", have an entry each, and the dependency target other.org/ext has
\* none.
OneEntryWitness ==
   /\ pc = "done"
   /\ retErr = <<>>
   /\ DOMAIN retMetrics.Packages = {"github.com/org/mod", "github.com/org/mod/mod"}
   /\ retMetrics.Packages["github.com/org/mod"].Name
         = retMetrics.Packages["github.com/org/mod/mod"].Name
   /\ retMetrics.Packages["github.com/org/mod"].Ce = 2
   /\ retMetrics.Packages["github.com/org/mod/mod"].Ce = 0
   /\ "other.org/ext" \in DOMAIN a.reverseDepends


\* ------------------------------------------------------------------------
\* Reporter.Generate (unnamed/part_003): the metrics are a map from package
\* path to the package's row; a report is the sequence of its rows
\* ------------------------------------------------------------------------
\* the metrics calculateMetrics may have produced for packages of the
\* module: Name is the display name of the key, Ce one of the numeric columns
ReportMetrics ==
   UNION { [K -> [Ce : 0..1]] :
             K \in SUBSET { Chars["github.com/org/mod"], Chars["github.com/org/mod/a"],
                            Chars["github.com/org/mod/mod"] } }

\* one row of the report, as all three formats fill it from the entry
Row(metrics, key) ==
   [Name |-> getRelativePath(key, Chars[ModuleIdentity]), Ce |-> metrics[key].Ce]

\* lines 66-77 and 92-115: the keys are collected, sorted with sort.Strings,
\* and the rows are written in that order
generateByKey(metrics) ==
   LET packageNames == CHOOSE p \in Orders(DOMAIN metrics) :
                          \A i, j \in 1..Len(p) : i < j => LessName(p[i], p[j])
   IN  [k \in 1..Len(packageNames) |-> Row(metrics, packageNames[k])]

\* lines 145-161: the rows are appended in the order in which the map is
\* ranged over and sorted by Name with sort.Slice, which does not promise
\* to keep the order of rows with equal names
generateJSONReports(metrics) ==
   { [k \in 1..Len(p) |-> Row(metrics, p[k])] :
        p \in { q \in Orders(DOMAIN metrics) :
                  \A i, j \in 1..Len(q) :
                     i < j => ~LessName(Row(metrics, q[j]).Name,
                                        Row(metrics, q[i]).Name) } }

ReportInit ==
   /\ PipelineIdle
   /\ bl = <<>> /\ lp = <<>> /\ sink = <<>> /\ requests = <<>>
   /\ dargs = <<>> /\ walk = <<>> /\ callbacks = <<>>
   /\ call \in [metrics : ReportMetrics,
                format : {"text", "csv", "json", "xml"}]
   /\ ret = <<>>

\* lines 44-55: one call of Generate on the reporter
Generate ==
   /\ Len(ret) < MaxReports
   /\ \E rows \in (IF call.format \in {"text", "csv"}
                   THEN {generateByKey(call.metrics)}
                   ELSE IF call.format = "json"
                   THEN generateJSONReports(call.metrics)
                   ELSE {<<>>}) :
         ret' = Append(ret, [rows |-> rows,
                             err |-> IF call.format \in {"text", "csv", "json"}
                                     THEN NoError ELSE "unsupported format"])
   /\ UNCHANGED <<pipeline, call, bl, lp, sink, requests, dargs, walk, callbacks>>

SpecReport == ReportInit /\ [][Generate]_vars

\* C38: every report that Generate writes for the same metrics in the same
\* format has the same rows in the same order, one row per package, and
\* a format other than text, CSV and JSON gives the error "unsupported
\* format" and no rows.
ReportOrderDetermined ==
   /\ \A i, j \in 1..Len(ret) : ret[i] = ret[j]
   /\ \A i \in 1..Len(ret) :
         IF call.format \in {"text", "csv", "json"}
         THEN /\ ret[i].err = NoError
              /\ Len(ret[i].rows) = Cardinality(DOMAIN call.metrics)
         ELSE ret[i].err = "unsupported format" /\ ret[i].rows = <<>>

====
